---- MODULE Spec2Model ----
(***************************************************************************)
(* Verification model of the knoway LLM gateway core.                      *)
(*                                                                         *)
(* The gateway is modelled component by component.  Every component has    *)
(* its own variables, its own initial condition and its own actions, and   *)
(* is checked under its own specification (SpecFallback, SpecRegistry,     *)
(* SpecStream, SpecRateLimit, SpecBootKit); the variables of the other     *)
(* components stay at their idle values.                                   *)
(***************************************************************************)
EXTENDS Integers, Sequences, FiniteSets, TLC

VARIABLES
    \* ---- route fallback loop (pkg/route/route, routeDefault.HandleRequest)
    fbCfg,          \* the route's fallback block: [set, maxRetriesSet, maxRetries,
                    \*   preDelaySet, postDelaySet]
    rpc,            \* position of HandleRequest: "idle", "loop", "returned"
    retriedCount,   \* the loop's retriedCount
    calls,          \* number of clustermanager.HandleRequest calls made
    lastUpstream,   \* what the upstream did on the last cluster call
    lastErr,        \* the error the last cluster call returned
    retErr,         \* the error HandleRequest returned
    preSleeps,      \* number of pre_delay sleeps taken
    postSleeps,     \* number of post_delay sleeps taken
    \* ---- route registry (pkg/route/manager)
    matchRouteRegistry, \* name -> route registered as a match-route, or NoRoute
    routeRegistry,      \* name -> route registered as a base-route, or NoRoute
    routes,             \* the derived list MatchRoute scans
    regOp,              \* the registry operation that ran last
    reqModel,           \* the model MatchRoute was called for, when it ran last
    matched,            \* what MatchRoute returned, when it ran last
    matchedRerun,       \* what it returns in a second run of the same mutations
    \* ---- streaming pipe (pkg/listener pipeCompletionsStream, openai NextChunk)
    upstream,       \* the lines of the upstream's event stream
    readEnd,        \* what the reader returns after the last line: "EOF" or "read_error"
    stream,         \* ChatCompletionStreamResponse: [pos, hasErrorPrefix, isDone,
                    \*   chunkNum, eof]
    client,         \* the events written to the client, in order
    ppc,            \* position of pipeCompletionsStream, "piping" to "ended"
    writeFailed,    \* a write to the client has failed
    completed,      \* the cluster's detached completer has run ResponseComplete
    cur,            \* the chunk and error NextChunk is returning
    filtered,       \* the chunks the per-chunk filters have seen
    metaWrites,     \* the writes to the request's metadata: <<task, field>>
    \* ---- local rate limiter (pkg/filters/ratelimit), one shard
    now,            \* the clock, in ticks
    ticks,          \* number of clock ticks taken
    policy,         \* the limit and window (seconds) requests are checked with
    limitChanges,   \* number of times the policy's limit was changed
    buckets,        \* shard.buckets: key -> tokenBucket, or NoBucket
    lastAccessTime, \* shard.lastAccessTime: key -> time, or NoTime
    createdAt,      \* key -> time its bucket was created
    limitChanged,   \* key -> its bucket has seen a change of limit
    \* history of the buckets, kept while the limit of a bucket is the one it was created with
    allowedAt,      \* key -> the times, within the last window, of the requests its bucket allowed
    denied,         \* key -> its bucket has denied a request at the current time
    steadySince,    \* key -> the time since which its bucket denied a request at every tick
    idled,          \* the long idle period has been taken
    \* ---- lifecycle kit (package bootkit)
    startPc,        \* where Start is: new, runnables, hooks, stopping, returned, exited
    mutex,          \* b.mutex: free, or held by Start or by Stop
    runnable,       \* runnable -> idle, running, sending (its error), done, failed
    hooks,          \* lifeCycle.hooks, in registration order
    startCtx,       \* the context of Start: none, live, timeout
    selfCtx,        \* b.selfCtx: live, cancelled
    runErr,         \* what callRunnable returned: none, nil, error, ctx
    selected,       \* the case Start's select took: none, errChan, startWg, selfCtx
    startHook,      \* hook -> none, running, ok, err
    sigHandler,     \* Start has installed its signal handler
    sigs,           \* number of signals the handler received
    stopPc,         \* where the call of Stop is: none, waiting, stopping, returned
    reversed,       \* caller of stop() -> the stop hooks in the order it launched them
    stopHook,       \* caller of stop() -> hook -> none, running, ok, sending, failed
    stopCtx,        \* caller of stop() -> none, live, timeout, cancelled
    stopErr,        \* caller of stop() -> none, waiting, nil, error, ctx
    logs,           \* the errors logged
    \* ---- listener middlewares and Drain (pkg/listener, listener tts)
    drained,        \* l.drained
    drainPc,        \* where Drain is: none, waiting (for the grace period), fired
    reqPc,          \* request -> new, chain, core, unwind, done
    reqAt,          \* request -> the index of the middleware it enters next
    reqMethod,      \* request -> its HTTP method
    requestCancelMap, \* the requests with a cancel handle in the map
    reqCtx,         \* request -> live, cancelled
    reqResp,        \* request -> none, 204, service_unavailable, handled
    afterDrain,     \* request -> it arrived once drained was set
    reachedCore,    \* request -> it entered the core handler
    \* ---- the core handler of a request (CommonListenerHandler)
    hin,            \* the request and the outcome of every stage it may reach
    hpc,            \* pre, parse, type, route, deferred, done
    htrace,         \* the stages that ran, in order
    hdefers,        \* the deferred functions registered so far
    herr,           \* the handler's variable err
    hresp,          \* the handler's variable resp
    hret,           \* what the handler returned
    hfailed,        \* the error of the filter that returned failed
    postSaw,        \* the (resp, err) pairs handed to the OnResponsePost filters
    \* ---- load balancers (pkg/route/manager)
    lbPolicy,       \* round_robin (WeightedRoundRobin), least_request (WeightedLeastRequest)
    servers,        \* w.servers: name and weight of every target
    counters,       \* target -> the count of its requestCounter
    lrCurrent,      \* WeightedLeastRequest.current, a plain int
    rrCurrent,      \* WeightedRoundRobin.current, an atomic
    gpc,            \* goroutine -> idle, lr_loop, lr_store, lr_inc, rr_store
    gl,             \* goroutine -> the locals of its call of Next
    returned,       \* goroutine -> the name its last Next returned, none after Done
    picks,          \* target -> how many calls of Next returned it
    incs,           \* target -> how many times Inc ran on its counter
    nextCalls,      \* the calls of Next so far
    lastDone,       \* the counter before and after the last Done
    \* ---- request and response bodies (pkg/types/openai)
    bodyBuffer,     \* TextToSpeechRequest.bodyBuffer: [nil, bytes]
    bodyParsed,     \* TextToSpeechRequest.bodyParsed: [nil, m]
    ttsModel,       \* TextToSpeechRequest.Model
    bodyOps,        \* the calls made on the request and the cluster so far
    bodyPanic,      \* a call dereferenced the nil bodyBuffer
    bodyErr,        \* the last call on the request returned an error
    upResp,         \* the last answer of the upstream: [kind, status, body]
    respOut,        \* what the cluster made of it: [kind, status, body]
    \* ---- route filters (pkg/route/route, NewWithConfig and HandleRequest)
    routeFilters,           \* routeDefault.routeFilters
    reversedRouteFilters,   \* routeDefault.reversedRouteFilters
    rfPc,           \* request, response, stream, done
    rfReqStream,    \* request.IsStream()
    rfStream,       \* the per-chunk callback is registered on the response
    rfReqRun,       \* the filters that ran on the request, in order
    rfRespRun,      \* the filters that ran on the last response or chunk, in order
    rfChunks,       \* the chunks of the stream so far
    \* ---- one full shard of the local rate limiter (pkg/filters/ratelimit)
    shardGen,       \* idle periods longer than a bucket's TTL so far
    shardTracked,   \* per generation, the buckets with an entry in shard.lastAccessTime
    shardUntracked, \* per generation, the buckets without one
    shardRun,       \* the kind of the last request
    shardRuns,      \* runs of requests so far
    lastInsert,     \* what the last insert of a new bucket found and dropped
    \* ---- image usage (pkg/types/openai, ImageGenerationsResponse)
    sizeFrom,       \* options.meteringPolicy.GetSizeFrom(), "nil" without a policy
    requestSize,    \* imageGenerationRequest.Size
    outputs,        \* per image of the response, the size its resolution finds
    usageImages,    \* r.Usage.Images after resolveUsage
    usageErr        \* resolveUsage returned an error

fallbackVars == <<fbCfg, rpc, retriedCount, calls, lastUpstream, lastErr, retErr,
                  preSleeps, postSleeps>>

registryVars == <<matchRouteRegistry, routeRegistry, routes, regOp, reqModel, matched,
                  matchedRerun>>

streamVars == <<upstream, readEnd, stream, client, ppc, writeFailed, completed, cur,
                filtered, metaWrites>>

rateVars == <<now, ticks, policy, limitChanges, buckets, lastAccessTime, createdAt,
              limitChanged, allowedAt, denied, steadySince, idled>>

bootVars == <<startPc, mutex, runnable, hooks, startCtx, selfCtx, runErr, selected,
              startHook, sigHandler, sigs, stopPc, reversed, stopHook, stopCtx, stopErr,
              logs>>

drainVars == <<drained, drainPc, reqPc, reqAt, reqMethod, requestCancelMap, reqCtx, reqResp,
               afterDrain, reachedCore>>

handlerVars == <<hin, hpc, htrace, hdefers, herr, hresp, hret, hfailed, postSaw>>

lbVars == <<lbPolicy, servers, counters, lrCurrent, rrCurrent, gpc, gl, returned, picks, incs,
            nextCalls, lastDone>>

bodyVars == <<bodyBuffer, bodyParsed, ttsModel, bodyOps, bodyPanic, bodyErr, upResp, respOut>>

routeFilterVars == <<routeFilters, reversedRouteFilters, rfPc, rfReqStream, rfStream, rfReqRun, rfRespRun,
                     rfChunks>>

shardVars == <<shardGen, shardTracked, shardUntracked, shardRun, shardRuns, lastInsert>>

imageVars == <<sizeFrom, requestSize, outputs, usageImages, usageErr>>

vars == <<fallbackVars, registryVars, streamVars, rateVars, bootVars, drainVars, handlerVars,
          lbVars, bodyVars,
    routeFilterVars, shardVars, imageVars>>

\* What the actions of one component leave alone.
notFallbackVars == <<registryVars, streamVars, rateVars, bootVars, drainVars,
    handlerVars, lbVars, bodyVars,
    routeFilterVars, shardVars, imageVars>>
notRegistryVars == <<fallbackVars, streamVars, rateVars, bootVars, drainVars,
    handlerVars, lbVars, bodyVars,
    routeFilterVars, shardVars, imageVars>>
notStreamVars == <<fallbackVars, registryVars, rateVars, bootVars, drainVars,
    handlerVars, lbVars, bodyVars,
    routeFilterVars, shardVars, imageVars>>
notRateVars == <<fallbackVars, registryVars, streamVars, bootVars, drainVars,
    handlerVars, lbVars, bodyVars,
    routeFilterVars, shardVars, imageVars>>
notBootVars == <<fallbackVars, registryVars, streamVars, rateVars, drainVars,
    handlerVars, lbVars, bodyVars,
    routeFilterVars, shardVars, imageVars>>
notDrainVars == <<fallbackVars, registryVars, streamVars, rateVars, bootVars, handlerVars,
    lbVars, bodyVars,
    routeFilterVars, shardVars, imageVars>>
notHandlerVars == <<fallbackVars, registryVars, streamVars, rateVars, bootVars, drainVars,
    lbVars, bodyVars,
    routeFilterVars, shardVars, imageVars>>
notLbVars == <<fallbackVars, registryVars, streamVars, rateVars, bootVars, drainVars,
    handlerVars, bodyVars,
    routeFilterVars, shardVars, imageVars>>
notBodyVars == <<fallbackVars, registryVars, streamVars, rateVars, bootVars, drainVars,
    handlerVars, lbVars,
    routeFilterVars, shardVars, imageVars>>
notRouteFilterVars == <<fallbackVars, registryVars, streamVars, rateVars, bootVars, drainVars,
    handlerVars, lbVars, bodyVars, shardVars, imageVars>>
notShardVars == <<fallbackVars, registryVars, streamVars, rateVars, bootVars, drainVars,
    handlerVars, lbVars, bodyVars, routeFilterVars, imageVars>>
notImageVars == <<fallbackVars, registryVars, streamVars, rateVars, bootVars, drainVars,
    handlerVars, lbVars, bodyVars, routeFilterVars, shardVars>>

(***************************************************************************)
(* Bounds of the model.                                                    *)
(***************************************************************************)
\* largest max_retries value a route is configured with
MaxRetriesCfg == 3
\* cluster calls of one request after which the model stops following the loop
MaxCalls == 6
\* largest number of lines in an upstream event stream
MaxLines == 3
\* largest number of members of a JSON body
MaxMembers == 2
\* largest number of entries of a params map or a key list
MaxParams == 1
\* calls on one request after which the model stops
MaxOps == 3
\* largest number of chunks of a stream the route's callback is followed for
MaxChunks == 2
\* idle periods longer than a bucket's TTL a shard is followed for
MaxIdles == 1
\* runs of requests of one kind to a shard
MaxRuns == 3
\* distance from zero or from maxBucketsPerShard at which a run may end
MarkWidth == 1
\* largest width and height of an image, in pixels
MaxSide == 2
\* largest number of images of a response
MaxImages == 2
\* clock ticks in one second
TicksPerSecond == 1
\* number of clock ticks a behaviour of the rate limiter takes
MaxTicks == 4
\* largest limit of a rate-limit policy
MaxLimit == 4
\* longest window of a rate-limit policy, in seconds
MaxWindow == 3
\* number of times the limit of the policy changes
MaxLimitChanges == 1

(***************************************************************************)
(* Route fallback loop.                                                    *)
(***************************************************************************)
defaultRouteFallbackMaxRetries == 3

NoErr == "nil"
ErrModelNotFound == "model_not_found"
ErrUpstream == "llm_error"
ErrResponse == "response_error"
ErrFilter == "filter_error"
ErrSkipStreamResponse == "skip_stream_response"

\* What one cluster call can meet: the cluster is not registered, the
\* upstream call fails, the upstream answers with a response whose error
\* field is set, or it answers with a clean response.
UpstreamOutcomes == {"no_cluster", "do_error", "response_with_error", "ok"}

\* lo.CoalesceOrEmpty: the first argument that is not the zero value.
CoalesceOrEmpty(a, b) == IF a # 0 THEN a ELSE IF b # 0 THEN b ELSE 0

\* clustermanager.HandleRequest: the error the route sees for an upstream outcome.
ClusterHandleRequest(u) ==
    CASE u = "no_cluster" -> ErrModelNotFound
      [] u = "do_error" -> ErrUpstream
      [] u = "response_with_error" -> ErrResponse
      [] OTHER -> NoErr

\* GetMaxRetries(): the value, or 0 when the field is nil.
GetMaxRetries(cfg) == IF cfg.maxRetriesSet THEN cfg.maxRetries ELSE 0

\* The route returns right after the call (no retry) on success.
ReturnsOnSuccess(err) == err = NoErr \/ err = ErrSkipStreamResponse

\* A route that goes on to the retry logic without looking at the fallback block.
ReturnsWithoutFallbackIgnored(cfg) == FALSE

\* The route returns the error when no fallback block is configured.
ReturnsWithoutFallback(cfg) == ~cfg.set

\* A budget of one retry, whatever max_retries says.
RetriesExhaustedAfterOne(cfg, n) == n >= 1

\* The retry budget is used up.
RetriesExhausted(cfg, n) ==
    n >= CoalesceOrEmpty(GetMaxRetries(cfg), defaultRouteFallbackMaxRetries)

\* The route sleeps pre_delay before the cluster call of a retry iteration.
SleepsPreDelay(cfg, n) == cfg.set /\ cfg.preDelaySet /\ n > 0

FallbackConfigs ==
    [set : BOOLEAN, maxRetriesSet : BOOLEAN, maxRetries : 0..MaxRetriesCfg,
     preDelaySet : BOOLEAN, postDelaySet : BOOLEAN]

FallbackInit ==
    /\ fbCfg \in {c \in FallbackConfigs :
                    /\ (~c.set => ~c.maxRetriesSet /\ ~c.preDelaySet /\ ~c.postDelaySet)
                    /\ (~c.maxRetriesSet => c.maxRetries = 0)}
    /\ rpc = "idle"
    /\ retriedCount = 0
    /\ calls = 0
    /\ lastUpstream = "none"
    /\ lastErr = NoErr
    /\ retErr = NoErr
    /\ preSleeps = 0
    /\ postSleeps = 0

\* HandleRequest up to the fallback loop: the route's request filters.
RouteRequestFilters(filterOk) ==
    /\ rpc = "idle"
    /\ IF filterOk
         THEN /\ rpc' = "loop"
              /\ retErr' = retErr
         ELSE /\ rpc' = "returned"
              /\ retErr' = ErrFilter
    /\ UNCHANGED <<fbCfg, retriedCount, calls, lastUpstream, lastErr,
                   preSleeps, postSleeps>>
    /\ UNCHANGED notFallbackVars

\* One iteration of the fallback loop.
RouteAttempt(u) ==
    /\ rpc = "loop"
    /\ calls < MaxCalls
    /\ LET err == ClusterHandleRequest(u) IN
        /\ calls' = calls + 1
        /\ lastUpstream' = u
        /\ lastErr' = err
        /\ preSleeps' = IF SleepsPreDelay(fbCfg, retriedCount)
                          THEN preSleeps + 1 ELSE preSleeps
        /\ postSleeps' = IF ~ReturnsOnSuccess(err) /\ ~ReturnsWithoutFallback(fbCfg)
                               /\ fbCfg.postDelaySet
                           THEN postSleeps + 1 ELSE postSleeps
        /\ IF ReturnsOnSuccess(err) \/ ReturnsWithoutFallback(fbCfg)
             THEN /\ rpc' = "returned"
                  /\ retErr' = err
                  /\ retriedCount' = retriedCount
             ELSE IF fbCfg.maxRetriesSet
               THEN IF RetriesExhausted(fbCfg, retriedCount)
                      THEN /\ rpc' = "returned"
                           /\ retErr' = err
                           /\ retriedCount' = retriedCount
                      ELSE /\ rpc' = "loop"
                           /\ retErr' = retErr
                           /\ retriedCount' = retriedCount + 1
               ELSE \* MaxRetries is nil: the loop goes round again as it is
                    /\ rpc' = "loop"
                    /\ retErr' = retErr
                    /\ retriedCount' = retriedCount
    /\ UNCHANGED fbCfg
    /\ UNCHANGED notFallbackVars

FallbackIdle ==
    /\ fbCfg = [set |-> FALSE, maxRetriesSet |-> FALSE, maxRetries |-> 0,
                preDelaySet |-> FALSE, postDelaySet |-> FALSE]
    /\ rpc = "idle"
    /\ retriedCount = 0
    /\ calls = 0
    /\ lastUpstream = "none"
    /\ lastErr = NoErr
    /\ retErr = NoErr
    /\ preSleeps = 0
    /\ postSleeps = 0

FallbackNext ==
    \/ \E ok \in BOOLEAN : RouteRequestFilters(ok)
    \/ \E u \in UpstreamOutcomes : RouteAttempt(u)

(***************************************************************************)
(* Route registry.                                                         *)
(***************************************************************************)
NoRoute == [name |-> "", kind |-> "none"]

RouteNames == {"a", "b"}

\* Model names are short strings, written as sequences of letters 1, 2.
Models == {<<1>>, <<1, 2>>}

\* A route configuration: its name, one match entry (model.exact or
\* model.prefix) and the number of targets.
RouteConfigs ==
    [name : RouteNames, matchKind : {"exact", "prefix"}, matchValue : Models,
     targets : 0..1]

\* rroute.NewWithConfig: the route object built from a configuration; kind
\* records the registry the object was built for.
NewWithConfig(cfg, kind) ==
    [name |-> cfg.name, kind |-> kind, matchKind |-> cfg.matchKind,
     matchValue |-> cfg.matchValue, targets |-> cfg.targets]

\* StringMatch.GetExact(): the exact value, "" for any other match.
GetExact(r) == IF r.matchKind = "exact" THEN r.matchValue ELSE <<>>

\* routeDefault.Match
Match(r, model) ==
    /\ GetExact(r) # <<>>
    /\ model = GetExact(r)
    /\ r.targets # 0

Registered(reg) == {n \in RouteNames : reg[n] # NoRoute}

\* A merge in which the base-route wins on a name collision.
mergeRoutesBaseWins(matchReg, baseReg) ==
    {baseReg[n] : n \in Registered(baseReg)}
        \cup {matchReg[n] : n \in Registered(matchReg) \ Registered(baseReg)}

\* mergeRoutes: the values of the uniqueRoutes map, as a set.
mergeRoutes(matchReg, baseReg) ==
    {matchReg[n] : n \in Registered(matchReg)}
        \cup {baseReg[n] : n \in Registered(baseReg) \ Registered(matchReg)}

\* lo.Values over a Go map: the values in any order.
Orderings(S) ==
    {q \in [1..Cardinality(S) -> S] : \A i, j \in 1..Cardinality(S) : q[i] = q[j] => i = j}

RECURSIVE FirstMatch(_, _, _)
FirstMatch(list, i, model) ==
    IF i > Len(list) THEN NoRoute
    ELSE IF Match(list[i], model) THEN list[i]
    ELSE FirstMatch(list, i + 1, model)

RegistryInit ==
    /\ matchRouteRegistry = [n \in RouteNames |-> NoRoute]
    /\ routeRegistry = [n \in RouteNames |-> NoRoute]
    /\ routes = <<>>
    /\ regOp = "none"
    /\ reqModel = <<>>
    /\ matched = NoRoute
    /\ matchedRerun = NoRoute

RegisterMatchRouteWithConfig(cfg) ==
    /\ matchRouteRegistry' =
            [matchRouteRegistry EXCEPT ![cfg.name] = NewWithConfig(cfg, "match")]
    /\ routes' \in Orderings(mergeRoutes(matchRouteRegistry', routeRegistry))
    /\ regOp' = "RegisterMatchRouteWithConfig"
    /\ reqModel' = <<>> /\ matched' = NoRoute /\ matchedRerun' = NoRoute
    /\ UNCHANGED routeRegistry
    /\ UNCHANGED notRegistryVars

RemoveMatchRoute(rName) ==
    /\ matchRouteRegistry' = [matchRouteRegistry EXCEPT ![rName] = NoRoute]
    /\ routes' \in Orderings(mergeRoutes(matchRouteRegistry', routeRegistry))
    /\ regOp' = "RemoveMatchRoute"
    /\ reqModel' = <<>> /\ matched' = NoRoute /\ matchedRerun' = NoRoute
    /\ UNCHANGED routeRegistry
    /\ UNCHANGED notRegistryVars

RegisterBaseRouteWithConfig(cfg) ==
    /\ routeRegistry' = [routeRegistry EXCEPT ![cfg.name] = NewWithConfig(cfg, "base")]
    /\ IF matchRouteRegistry[cfg.name] # NoRoute
         THEN routes' = routes
         ELSE routes' \in Orderings(mergeRoutes(matchRouteRegistry, routeRegistry'))
    /\ regOp' = "RegisterBaseRouteWithConfig"
    /\ reqModel' = <<>> /\ matched' = NoRoute /\ matchedRerun' = NoRoute
    /\ UNCHANGED matchRouteRegistry
    /\ UNCHANGED notRegistryVars

RemoveBaseRoute(rName) ==
    /\ routeRegistry' = [routeRegistry EXCEPT ![rName] = NoRoute]
    /\ routes' \in Orderings(mergeRoutes(matchRouteRegistry, routeRegistry'))
    /\ regOp' = "RemoveBaseRoute"
    /\ reqModel' = <<>> /\ matched' = NoRoute /\ matchedRerun' = NoRoute
    /\ UNCHANGED matchRouteRegistry
    /\ UNCHANGED notRegistryVars

MatchRoute(model) ==
    /\ reqModel' = model
    /\ matched' = FirstMatch(routes, 1, model)
    /\ regOp' = "MatchRoute"
    /\ matchedRerun' \in {FirstMatch(q, 1, model) :
                            q \in Orderings(mergeRoutes(matchRouteRegistry, routeRegistry))}
    /\ UNCHANGED <<matchRouteRegistry, routeRegistry, routes>>
    /\ UNCHANGED notRegistryVars

RegistryNext ==
    \/ \E cfg \in RouteConfigs : RegisterMatchRouteWithConfig(cfg)
    \/ \E n \in RouteNames : RemoveMatchRoute(n)
    \/ \E cfg \in RouteConfigs : RegisterBaseRouteWithConfig(cfg)
    \/ \E n \in RouteNames : RemoveBaseRoute(n)
    \/ \E m \in Models : MatchRoute(m)

(***************************************************************************)
(* Streaming pipe: ChatCompletionStreamResponse.NextChunk and the          *)
(* listener's pipeCompletionsStream.                                       *)
(***************************************************************************)
\* The lines an upstream can send.  "data" is `data: <json>` with the keys
\* in encoding/json's order, "data_unsorted" the same with the keys in
\* another order, "data_no_model" a data line whose object has no model
\* member, "usage" a data line holding "completion_tokens":,
\* "bad_json" a data line whose payload does not parse, "bad_usage" a data
\* line holding "completion_tokens": whose payload does not parse or whose
\* usage is rejected, "error" a line
\* starting `data: {"error":`, "plain" a line without the `data: ` prefix
\* (the blank line between two events, a comment, an `event:` line) and
\* "done" is `data: [DONE]`.
LineKinds == {"data", "data_unsorted", "data_no_model", "usage", "bad_json", "bad_usage",
              "error", "plain", "done"}

UpstreamStreams == UNION {[1..n -> LineKinds] : n \in 0..MaxLines}

\* the name of the cluster a request is dispatched to
ClusterName == "c"

\* The model member of the upstream's chunks, and the names a per-chunk
\* callback gives to SetModel.
UpstreamModel == "upstream"
ChunkModels == {ClusterName}

\* The nil map of a chunk that parsed no body.
NilBody == [value |-> 0, model |-> ""]

\* json.Unmarshal of a line's payload: the value, here the line's number,
\* and its model member, "" without one.
Unmarshal(i, kind) ==
    [value |-> i, model |-> IF kind = "data_no_model" THEN "" ELSE UpstreamModel]

\* json.Marshal of a parsed body: the value with its keys sorted, and the
\* model member when it is no longer the one parsed; the nil body of an
\* empty chunk marshals to null.
Marshal(body) ==
    IF body = NilBody THEN <<"null", 0>>
    ELSE IF body.model \in {"", UpstreamModel} THEN <<"json", body.value>>
    ELSE <<"json", body.value, body.model>>

\* ChatCompletionStreamChunk.ToServerSentEvent
ToServerSentEvent(chunk) ==
    IF chunk.isDone THEN <<"[DONE]", 0>> ELSE Marshal(chunk.bodyParsed)

NewEmptyChatCompletionStreamChunk(st) ==
    [isEmpty |-> TRUE, isDone |-> FALSE, isUsage |-> FALSE,
     isFirst |-> (st.chunkNum = 1), bodyParsed |-> NilBody, Model |-> "", isNil |-> FALSE]

NewDoneChatCompletionStreamChunk ==
    [isEmpty |-> FALSE, isDone |-> TRUE, isUsage |-> FALSE,
     isFirst |-> FALSE, bodyParsed |-> NilBody, Model |-> "", isNil |-> FALSE]

NewUsageChatCompletionStreamChunk(st, i, kind) ==
    [isEmpty |-> FALSE, isDone |-> FALSE, isUsage |-> TRUE,
     isFirst |-> (st.chunkNum = 1), bodyParsed |-> Unmarshal(i, kind),
     Model |-> Unmarshal(i, kind).model, isNil |-> FALSE]

NewChatCompletionStreamChunk(st, i, kind) ==
    [isEmpty |-> FALSE, isDone |-> FALSE, isUsage |-> FALSE,
     isFirst |-> (st.chunkNum = 1), bodyParsed |-> Unmarshal(i, kind),
     Model |-> Unmarshal(i, kind).model, isNil |-> FALSE]

\* ChatCompletionStreamChunk.SetModel: the replace patch of /model is
\* applied to responseBody and the results are stored before err is looked
\* at, nil and nil when the patch fails (a nil body, a body without model
\* member); Model follows when it succeeded.
ChunkSetModel(chunk, model) ==
    IF chunk.bodyParsed = NilBody \/ chunk.bodyParsed.model = ""
    THEN [chunk EXCEPT !.bodyParsed = NilBody]
    ELSE [chunk EXCEPT !.bodyParsed.model = model, !.Model = model]

\* The nil chunk: the zero value of NextChunk's variable chunk. A callback
\* that calls a method of it panics.
NilChunk ==
    [isEmpty |-> FALSE, isDone |-> FALSE, isUsage |-> FALSE,
     isFirst |-> FALSE, bodyParsed |-> NilBody, Model |-> "", isNil |-> TRUE]

\* ChatCompletionStreamResponse.NextChunk on the stream state st: the state
\* after the call, the chunk and the error returned.
NextChunk(lines, atEnd, st) ==
    IF st.pos >= Len(lines)
      THEN \* ReadBytes fails
           [st |-> [st EXCEPT !.eof = TRUE],
            chunk |-> NewEmptyChatCompletionStreamChunk(st), err |-> atEnd]
    ELSE LET i == st.pos + 1
             kind == lines[i]
             rd == [st EXCEPT !.pos = i]
         IN
      IF st.hasErrorPrefix
        THEN [st |-> [rd EXCEPT !.eof = TRUE],
              chunk |-> NewEmptyChatCompletionStreamChunk(rd), err |-> "nil"]
      ELSE IF kind = "error"
        THEN [st |-> [rd EXCEPT !.hasErrorPrefix = TRUE],
              chunk |-> NewEmptyChatCompletionStreamChunk(rd), err |-> "nil"]
      ELSE IF kind = "plain"
        THEN [st |-> rd,
              chunk |-> NewEmptyChatCompletionStreamChunk(rd), err |-> "nil"]
      ELSE LET cnt == [rd EXCEPT !.chunkNum = rd.chunkNum + 1] IN
        IF kind = "done"
          THEN [st |-> [cnt EXCEPT !.isDone = TRUE, !.eof = TRUE],
                chunk |-> NewDoneChatCompletionStreamChunk, err |-> "EOF"]
        ELSE IF kind = "bad_json"
          THEN [st |-> [cnt EXCEPT !.eof = TRUE],
                chunk |-> NewEmptyChatCompletionStreamChunk(cnt), err |-> "json_error"]
        ELSE IF kind = "bad_usage"
          THEN \* the chunk built is not assigned to the chunk returned
               [st |-> [cnt EXCEPT !.eof = TRUE], chunk |-> NilChunk, err |-> "json_error"]
        ELSE IF kind = "usage"
          THEN [st |-> [cnt EXCEPT !.usage = TRUE],
                chunk |-> NewUsageChatCompletionStreamChunk(cnt, i, kind), err |-> "nil"]
        ELSE [st |-> cnt,
              chunk |-> NewChatCompletionStreamChunk(cnt, i, kind), err |-> "nil"]

\* No call of NextChunk is returning.
NoChunk == [chunk |-> [isEmpty |-> TRUE], err |-> "none"]

StreamInit ==
    /\ upstream \in UpstreamStreams
    /\ readEnd \in {"EOF", "read_error"}
    /\ stream = [pos |-> 0, hasErrorPrefix |-> FALSE, isDone |-> FALSE,
                 chunkNum |-> 0, eof |-> FALSE, usage |-> FALSE]
    /\ client = <<>>
    /\ ppc = "piping"
    /\ writeFailed = FALSE
    /\ completed = FALSE
    /\ cur = NoChunk
    /\ filtered = <<>>
    /\ metaWrites = {}

StreamIdle ==
    /\ upstream = <<>>
    /\ readEnd = "EOF"
    /\ stream = [pos |-> 0, hasErrorPrefix |-> FALSE, isDone |-> FALSE,
                 chunkNum |-> 0, eof |-> FALSE, usage |-> FALSE]
    /\ client = <<>>
    /\ ppc = "piping"
    /\ writeFailed = FALSE
    /\ completed = FALSE
    /\ cur = NoChunk
    /\ filtered = <<>>
    /\ metaWrites = {}

\* The metadata fields the loop of pipeCompletionsStream writes for the
\* chunk a call of NextChunk returned; the loop runs in the handling task.
HandlerWrites(c) ==
    IF c.err # "nil" \/ c.chunk.isEmpty THEN {}
    ELSE (IF c.chunk.isUsage THEN {<<"handler", "LLMUpstreamTokensUsage">>} ELSE {})
            \cup (IF c.chunk.isFirst
                    THEN {<<"handler", "UpstreamFirstValidChunkAt">>,
                          <<"handler", "UpstreamResponseModel">>}
                    ELSE {})

\* The metadata fields the cluster's detached task writes once the EOF
\* signal has fired: the usage, when the stream has accumulated one.
CompleterWrites(st) ==
    IF st.usage THEN {<<"completer", "LLMUpstreamTokensUsage">>} ELSE {}

\* The body of NextChunk, up to its return statement: the EOF signal has
\* fired if this call fires it, the registered callbacks have not run yet.
NextChunkCall ==
    /\ ppc = "piping"
    /\ LET r == NextChunk(upstream, readEnd, stream) IN
        /\ stream' = r.st
        /\ cur' = [chunk |-> r.chunk, err |-> r.err]
    /\ ppc' = "deferred"
    /\ UNCHANGED <<upstream, readEnd, client, writeFailed, completed, filtered, metaWrites>>
    /\ UNCHANGED notStreamVars

\* A per-chunk callback, run by the deferred function of NextChunk, calls
\* SetModel on the chunk it is handed (on the nil chunk the call panics,
\* see PipePanic).
PipeCallbackSetModel(model) ==
    /\ ppc = "deferred"
    /\ ~cur.chunk.isNil
    /\ cur' = [cur EXCEPT !.chunk = ChunkSetModel(@, model)]
    /\ UNCHANGED <<upstream, readEnd, stream, client, ppc, writeFailed, completed, filtered,
                   metaWrites>>
    /\ UNCHANGED notStreamVars

\* The deferred function of NextChunk: under onChunkCallbacksMutex it hands
\* the chunk to every registered per-chunk callback, then NextChunk returns
\* to the loop of pipeCompletionsStream.
PipeCallbacks ==
    /\ ppc = "deferred"
    /\ filtered' = Append(filtered, cur.chunk)
    /\ ppc' = "returned"
    /\ UNCHANGED <<upstream, readEnd, stream, client, writeFailed, completed, cur, metaWrites>>
    /\ UNCHANGED notStreamVars

\* The loop of pipeCompletionsStream on what NextChunk returned, up to the
\* call of handleChunk: an error other than EOF ends the loop, an empty
\* chunk is skipped, the metadata of the other chunks is written.
PipeLoop ==
    /\ ppc = "returned"
    /\ metaWrites' = metaWrites \cup HandlerWrites(cur)
    /\ ppc' = IF cur.err \notin {"nil", "EOF"} THEN "ended"
              ELSE IF cur.err = "nil" /\ cur.chunk.isEmpty THEN "piping"
              ELSE "writing"
    /\ cur' = IF cur.err = "EOF" \/ (cur.err = "nil" /\ ~cur.chunk.isEmpty) THEN cur ELSE NoChunk
    /\ UNCHANGED <<upstream, readEnd, stream, client, writeFailed, completed, filtered>>
    /\ UNCHANGED notStreamVars

\* handleChunk: the event of the chunk is written to the client; writeOk
\* says whether the write succeeds. The loop ends after the last chunk and
\* after a failed write.
PipeStep(writeOk) ==
    /\ ppc = "writing"
    /\ client' = IF writeOk THEN Append(client, ToServerSentEvent(cur.chunk)) ELSE client
    /\ writeFailed' = (writeFailed \/ ~writeOk)
    /\ ppc' = IF cur.err # "nil" \/ ~writeOk THEN "ended" ELSE "piping"
    /\ cur' = NoChunk
    /\ UNCHANGED <<upstream, readEnd, stream, completed, filtered, metaWrites>>
    /\ UNCHANGED notStreamVars

\* A per-chunk callback panics in the deferred function of NextChunk: the
\* panic unwinds pipeCompletionsStream and the handler, WithRecoverWithError
\* recovers it and writes the internal error as a JSON body to the writer,
\* whose event-stream headers are out already.
PipePanic ==
    /\ ppc = "deferred"
    /\ filtered' = Append(filtered, cur.chunk)
    /\ client' = Append(client, <<"json_error_body", 500>>)
    /\ ppc' = "recovered"
    /\ cur' = NoChunk
    /\ UNCHANGED <<upstream, readEnd, stream, writeFailed, completed, metaWrites>>
    /\ UNCHANGED notStreamVars

\* The cluster's detached task: waits for the stream's EOF signal, then
\* runs the ResponseComplete filters.
StreamCompleter ==
    /\ stream.eof
    /\ ~completed
    /\ completed' = TRUE
    /\ metaWrites' = metaWrites \cup CompleterWrites(stream)
    /\ UNCHANGED <<upstream, readEnd, stream, client, ppc, writeFailed, cur, filtered>>
    /\ UNCHANGED notStreamVars

StreamNext ==
    \/ NextChunkCall
    \/ \E model \in ChunkModels : PipeCallbackSetModel(model)
    \/ PipeCallbacks
    \/ PipeLoop
    \/ \E writeOk \in BOOLEAN : PipeStep(writeOk)
    \/ PipePanic
    \/ StreamCompleter

(***************************************************************************)
(* Local rate limiter: one shard of token buckets.                         *)
(***************************************************************************)
\* seconds
maxTTL == 300
ttlRate == 2
maxBucketsPerShard == 10000
precision == 1000

Keys == {"k1"}
NoKey == ""
NoTime == -1
NoBucket == [tokens |-> -1, capacity |-> -1, rate |-> -1, lastUpdate |-> -1,
             oldLimit |-> -1, expireAt |-> -1]

Max(a, b) == IF a >= b THEN a ELSE b
Min(a, b) == IF a <= b THEN a ELSE b

\* seconds
defaultDuration == 60

Policies == [limit : 1..MaxLimit, window : (1..MaxWindow) \cup {defaultDuration}]

\* ttl := max(maxTTL, window*ttlRate); expireAt := now.Add(ttl)
ExpireAt(t, window) == t + Max(maxTTL, window * ttlRate) * TicksPerSecond

\* newCapacity := int64(limit * precision)
NewCapacity(limit) == limit * precision

\* newRate := int64(float64(newCapacity) / window.Seconds())
NewRate(limit, window) == NewCapacity(limit) \div window

\* The keys evictOldestBucket may remove: the ones accessed earliest, when
\* earlier than now (the range over the map meets them in any order).
EvictionCandidates(la, t) ==
    {k \in Keys : /\ la[k] # NoTime
                  /\ la[k] < t
                  /\ \A o \in Keys : la[o] # NoTime => la[k] <= la[o]}

\* The key initBucket evicts: none below maxBucketsPerShard buckets.
Victims(bs, la, t) ==
    IF Cardinality({k \in Keys : bs[k] # NoBucket}) >= maxBucketsPerShard
         /\ EvictionCandidates(la, t) # {}
      THEN EvictionCandidates(la, t)
      ELSE {NoKey}

\* The bucket initBucket stores.
initBucket(limit, window, t) ==
    [tokens |-> NewCapacity(limit), capacity |-> NewCapacity(limit),
     rate |-> NewRate(limit, window), lastUpdate |-> t, oldLimit |-> limit,
     expireAt |-> ExpireAt(t, window)]

\* updateBucket on a bucket that has not expired.
updateBucket(b, limit, window, t) ==
    IF b.oldLimit # limit
      THEN [b EXCEPT !.oldLimit = limit, !.capacity = NewCapacity(limit),
                     !.rate = NewRate(limit, window), !.expireAt = ExpireAt(t, window)]
      ELSE [b EXCEPT !.expireAt = ExpireAt(t, window)]

\* A refill that does not stop at the capacity.
RefillUncapped(b, t) ==
    LET tokensToAdd == ((t - b.lastUpdate) \div TicksPerSecond) * b.rate IN
    IF tokensToAdd > 0
      THEN [b EXCEPT !.tokens = b.tokens + tokensToAdd, !.lastUpdate = t]
      ELSE b

\* tryConsume, the refill: whole seconds elapsed times the rate.
Refill(b, t) ==
    LET tokensToAdd == ((t - b.lastUpdate) \div TicksPerSecond) * b.rate IN
    IF tokensToAdd > 0
      THEN [b EXCEPT !.tokens = Min(b.tokens + tokensToAdd, b.capacity),
                     !.lastUpdate = t]
      ELSE b

\* tryConsume, the decision.
CanConsume(b) == b.tokens >= precision

\* tryConsume, the bucket after the call.
tryConsume(b, t) ==
    IF CanConsume(Refill(b, t))
      THEN [Refill(b, t) EXCEPT !.tokens = @ - precision]
      ELSE Refill(b, t)

RateInit ==
    /\ now = 0
    /\ ticks = 0
    /\ policy \in Policies
    /\ limitChanges = 0
    /\ buckets = [k \in Keys |-> NoBucket]
    /\ lastAccessTime = [k \in Keys |-> NoTime]
    /\ createdAt = [k \in Keys |-> NoTime]
    /\ limitChanged = [k \in Keys |-> FALSE]
    /\ allowedAt = [k \in Keys |-> <<>>]
    /\ denied = [k \in Keys |-> FALSE]
    /\ steadySince = [k \in Keys |-> 0]
    /\ idled = FALSE

RateIdle ==
    /\ now = 0
    /\ ticks = 0
    /\ policy = [limit |-> 1, window |-> 1]
    /\ limitChanges = 0
    /\ buckets = [k \in Keys |-> NoBucket]
    /\ lastAccessTime = [k \in Keys |-> NoTime]
    /\ createdAt = [k \in Keys |-> NoTime]
    /\ limitChanged = [k \in Keys |-> FALSE]
    /\ allowedAt = [k \in Keys |-> <<>>]
    /\ denied = [k \in Keys |-> FALSE]
    /\ steadySince = [k \in Keys |-> 0]
    /\ idled = FALSE

\* The entries of a sequence of times that are not before t.
Since(times, t) == SelectSeq(times, LAMBDA x : x >= t)

\* checkBucketLocal(key, window, limit) at the time now.
checkBucketLocal(key) ==
    LET la == [lastAccessTime EXCEPT ![key] = now]
        old == buckets[key]
        expired == old # NoBucket /\ now > old.expireAt
        fresh == old = NoBucket \/ expired
        \* updateBucket deletes an expired bucket before initBucket counts
        held == IF expired THEN [buckets EXCEPT ![key] = NoBucket] ELSE buckets
        la2 == IF expired THEN [la EXCEPT ![key] = NoTime] ELSE la
    IN
    \E victim \in (IF fresh THEN Victims(held, la2, now) ELSE {NoKey}) :
        LET kept == [k \in Keys |-> IF k = victim THEN NoBucket ELSE held[k]]
            la3 == [k \in Keys |-> IF k = victim THEN NoTime ELSE la2[k]]
            b0 == IF fresh
                    THEN initBucket(policy.limit, policy.window, now)
                    ELSE updateBucket(old, policy.limit, policy.window, now)
            allowed == CanConsume(Refill(b0, now))
            changed == ~fresh /\ (limitChanged[key] \/ old.oldLimit # policy.limit)
        IN
        /\ buckets' = [kept EXCEPT ![key] = tryConsume(b0, now)]
        /\ lastAccessTime' = la3
        /\ createdAt' = [createdAt EXCEPT ![key] = IF fresh THEN now ELSE @]
        /\ limitChanged' = [limitChanged EXCEPT ![key] = changed]
        /\ allowedAt' = [allowedAt EXCEPT ![key] =
                IF changed THEN <<>>
                ELSE IF allowed THEN Append(IF fresh THEN <<>> ELSE @, now)
                ELSE IF fresh THEN <<>> ELSE @]
        /\ denied' = [denied EXCEPT ![key] =
                IF changed THEN FALSE
                ELSE IF allowed THEN (~fresh /\ @) ELSE TRUE]
        /\ steadySince' = [steadySince EXCEPT ![key] = IF fresh \/ changed THEN now ELSE @]
        /\ UNCHANGED <<now, ticks, policy, limitChanges, idled>>
        /\ UNCHANGED notRateVars

\* The clock advances by one tick.
Tick ==
    /\ ticks < MaxTicks
    /\ ticks' = ticks + 1
    /\ now' = now + 1
    /\ allowedAt' = [k \in Keys |->
            Since(allowedAt[k], now + 1 - policy.window * TicksPerSecond)]
    /\ denied' = [k \in Keys |-> FALSE]
    /\ steadySince' = [k \in Keys |-> IF denied[k] THEN steadySince[k] ELSE now + 1]
    /\ UNCHANGED <<policy, limitChanges, buckets, lastAccessTime, createdAt,
                   limitChanged, idled>>
    /\ UNCHANGED notRateVars

\* No request for longer than any bucket lives.
LongIdle ==
    /\ ~idled
    /\ idled' = TRUE
    /\ now' = now + Max(maxTTL, MaxWindow * ttlRate) * TicksPerSecond + 1
    /\ allowedAt' = [k \in Keys |-> <<>>]
    /\ denied' = [k \in Keys |-> FALSE]
    /\ steadySince' = [k \in Keys |-> now']
    /\ UNCHANGED <<ticks, policy, limitChanges, buckets, lastAccessTime, createdAt,
                   limitChanged>>
    /\ UNCHANGED notRateVars

\* Requests come to be checked with another limit.
ChangeLimit(limit) ==
    /\ limitChanges < MaxLimitChanges
    /\ limit # policy.limit
    /\ policy' = [policy EXCEPT !.limit = limit]
    /\ limitChanges' = limitChanges + 1
    /\ UNCHANGED <<now, ticks, buckets, lastAccessTime, createdAt, limitChanged,
                   allowedAt, denied, steadySince, idled>>
    /\ UNCHANGED notRateVars

\* cleanup: the sweep removes the expired buckets.
cleanup ==
    /\ \E k \in Keys : buckets[k] # NoBucket /\ now > buckets[k].expireAt
    /\ buckets' = [k \in Keys |->
            IF buckets[k] # NoBucket /\ now > buckets[k].expireAt
              THEN NoBucket ELSE buckets[k]]
    /\ lastAccessTime' = [k \in Keys |->
            IF buckets[k] # NoBucket /\ now > buckets[k].expireAt
              THEN NoTime ELSE lastAccessTime[k]]
    /\ UNCHANGED <<now, ticks, policy, limitChanges, createdAt, limitChanged,
                   allowedAt, denied, steadySince, idled>>
    /\ UNCHANGED notRateVars

RateNext ==
    \/ \E k \in Keys : checkBucketLocal(k)
    \/ Tick
    \/ LongIdle
    \/ \E l \in 1..MaxLimit : ChangeLimit(l)
    \/ cleanup

(***************************************************************************)
(* Lifecycle kit (package bootkit).                                        *)
(***************************************************************************)
\* b.parallelRun: the runnables added before Start; runnable r may append
\* the lifecycle hook r.
Runnables == {"r1", "r2"}

\* The callers of stop(): Start (through mayStop) and Stop.
Rounds == {"Start", "Stop"}

\* mutable.Reverse
Reverse(s) == [i \in 1..Len(s) |-> s[Len(s) + 1 - i]]

Range(s) == {s[i] : i \in 1..Len(s)}

\* os.Exit has not been called.
Alive == startPc # "exited"

\* ctx of Start is done: its timeout has elapsed or selfCtx is cancelled.
StartCtxDone == startCtx = "timeout" \/ selfCtx = "cancelled"

\* Start returns without running the start hooks: `if err != nil`.
ReturnsBeforeStartHooksNever(err) == FALSE

ReturnsBeforeStartHooks(err) == err # "nil"

\* wg.Wait() of callStopHooks is over: a hook sending its error has not
\* reached wg.Done().
AllDoneIgnoringErrors(st) == \A h \in Runnables : st[h] \in {"none", "ok", "sending"}

AllDone(st) == \A h \in Runnables : st[h] \in {"none", "ok"}

BootInit ==
    /\ startPc = "new"
    /\ mutex = "free"
    /\ runnable = [r \in Runnables |-> "idle"]
    /\ hooks = <<>>
    /\ startCtx = "none"
    /\ selfCtx = "live"
    /\ runErr = "none"
    /\ selected = "none"
    /\ startHook = [h \in Runnables |-> "none"]
    /\ sigHandler = FALSE
    /\ sigs = 0
    /\ stopPc = "none"
    /\ reversed = [rd \in Rounds |-> <<>>]
    /\ stopHook = [rd \in Rounds |-> [h \in Runnables |-> "none"]]
    /\ stopCtx = [rd \in Rounds |-> "none"]
    /\ stopErr = [rd \in Rounds |-> "none"]
    /\ logs = {}

\* stop() up to the wait of callStopHooks: nothing without hooks, else the
\* stop hooks are launched in reverse order under a context of stopTimeout.
stop(rd) ==
    IF hooks = <<>>
      THEN /\ stopErr' = [stopErr EXCEPT ![rd] = "nil"]
           /\ UNCHANGED <<reversed, stopHook, stopCtx>>
      ELSE /\ reversed' = [reversed EXCEPT ![rd] = Reverse(hooks)]
           /\ stopHook' = [stopHook EXCEPT ![rd] =
                  [h \in Runnables |-> IF h \in Range(hooks) THEN "running" ELSE "none"]]
           /\ stopCtx' = [stopCtx EXCEPT ![rd] = "live"]
           /\ stopErr' = [stopErr EXCEPT ![rd] = "waiting"]

\* mayStop of Start: Start returns at once when there is no hook.
mayStop ==
    /\ stop("Start")
    /\ startPc' = IF hooks = <<>> THEN "returned" ELSE "stopping"
    /\ mutex' = IF hooks = <<>> THEN "free" ELSE mutex

\* Start once callRunnable has returned err.
AfterRunnables(err) ==
    /\ runErr' = err
    /\ IF ReturnsBeforeStartHooks(err)
         THEN /\ logs' = logs \cup {"failed to run"}
              /\ mayStop
              /\ UNCHANGED <<startHook, sigHandler>>
         ELSE /\ startHook' = [h \in Runnables |->
                     IF h \in Range(hooks) THEN "running" ELSE "none"]
              /\ sigHandler' = TRUE
              /\ startPc' = "hooks"
              /\ UNCHANGED <<logs, mutex, reversed, stopHook, stopCtx, stopErr>>

\* Start: takes the mutex and launches the runnables under startTimeout.
Start ==
    /\ startPc = "new"
    /\ mutex = "free"
    /\ mutex' = "Start"
    /\ startPc' = "runnables"
    /\ startCtx' = "live"
    /\ runnable' = [r \in Runnables |-> "running"]
    /\ UNCHANGED <<hooks, selfCtx, runErr, selected, startHook, sigHandler, sigs, stopPc,
                   reversed, stopHook, stopCtx, stopErr, logs>>
    /\ UNCHANGED notBootVars

\* A runnable registers its hook: lifeCycle.Append.
RunnableAppend(r) ==
    /\ Alive
    /\ runnable[r] = "running"
    /\ r \notin Range(hooks)
    /\ hooks' = Append(hooks, r)
    /\ UNCHANGED <<startPc, mutex, runnable, startCtx, selfCtx, runErr, selected, startHook,
                   sigHandler, sigs, stopPc, reversed, stopHook, stopCtx, stopErr, logs>>
    /\ UNCHANGED notBootVars

\* A runnable returns while callRunnable waits for it: with an error it
\* blocks sending it to errChan.
RunnableReturn(r, failed) ==
    /\ startPc = "runnables"
    /\ runnable[r] = "running"
    /\ runnable' = [runnable EXCEPT ![r] = IF failed THEN "sending" ELSE "done"]
    /\ UNCHANGED <<startPc, mutex, hooks, startCtx, selfCtx, runErr, selected, startHook,
                   sigHandler, sigs, stopPc, reversed, stopHook, stopCtx, stopErr, logs>>
    /\ UNCHANGED notBootVars

\* startTimeout elapses while Start waits for the runnables.
StartTimeout ==
    /\ startPc = "runnables"
    /\ startCtx = "live"
    /\ startCtx' = "timeout"
    /\ UNCHANGED <<startPc, mutex, runnable, hooks, selfCtx, runErr, selected, startHook,
                   sigHandler, sigs, stopPc, reversed, stopHook, stopCtx, stopErr, logs>>
    /\ UNCHANGED notBootVars

\* callRunnable: every runnable has returned nil.
RunnablesDone ==
    /\ startPc = "runnables"
    /\ \A r \in Runnables : runnable[r] = "done"
    /\ AfterRunnables("nil")
    /\ UNCHANGED <<runnable, hooks, startCtx, selfCtx, selected, sigs, stopPc>>
    /\ UNCHANGED notBootVars

\* callRunnable: the error of a runnable is received.
RunnableError(r) ==
    /\ startPc = "runnables"
    /\ runnable[r] = "sending"
    /\ runnable' = [runnable EXCEPT ![r] = "failed"]
    /\ AfterRunnables("error")
    /\ UNCHANGED <<hooks, startCtx, selfCtx, selected, sigs, stopPc>>
    /\ UNCHANGED notBootVars

\* callRunnable: the context is done before the runnables.
RunnablesCtxDone ==
    /\ startPc = "runnables"
    /\ StartCtxDone
    /\ AfterRunnables("ctx")
    /\ UNCHANGED <<runnable, hooks, startCtx, selfCtx, selected, sigs, stopPc>>
    /\ UNCHANGED notBootVars

\* A start hook returns while Start waits in its select: an error goes to
\* the buffered errChan.
StartHookReturn(h, failed) ==
    /\ startPc = "hooks"
    /\ startHook[h] = "running"
    /\ startHook' = [startHook EXCEPT ![h] = IF failed THEN "err" ELSE "ok"]
    /\ UNCHANGED <<startPc, mutex, runnable, hooks, startCtx, selfCtx, runErr, selected,
                   sigHandler, sigs, stopPc, reversed, stopHook, stopCtx, stopErr, logs>>
    /\ UNCHANGED notBootVars

\* Start's select: the error of a start hook.
StartHookError ==
    /\ startPc = "hooks"
    /\ \E h \in Runnables : startHook[h] = "err"
    /\ selected' = "errChan"
    /\ logs' = logs \cup {"failed to start"}
    /\ mayStop
    /\ UNCHANGED <<runnable, hooks, startCtx, selfCtx, runErr, startHook, sigHandler,
                   sigs, stopPc>>
    /\ UNCHANGED notBootVars

\* Start's select: every start hook has returned.
StartHooksDone ==
    /\ startPc = "hooks"
    /\ \A h \in Runnables : startHook[h] # "running"
    /\ selected' = "startWg"
    /\ mayStop
    /\ UNCHANGED <<runnable, hooks, startCtx, selfCtx, runErr, startHook, sigHandler,
                   sigs, stopPc, logs>>
    /\ UNCHANGED notBootVars

\* Start's select: selfCtx is cancelled.
StartCancelled ==
    /\ startPc = "hooks"
    /\ selfCtx = "cancelled"
    /\ selected' = "selfCtx"
    /\ mayStop
    /\ UNCHANGED <<runnable, hooks, startCtx, selfCtx, runErr, startHook, sigHandler,
                   sigs, stopPc, logs>>
    /\ UNCHANGED notBootVars

\* SIGINT or SIGTERM once Start has installed its handler: the first
\* cancels selfCtx, the second exits the process.
Signal ==
    /\ Alive
    /\ sigHandler
    /\ sigs' = sigs + 1
    /\ selfCtx' = "cancelled"
    /\ startPc' = IF sigs = 0 THEN startPc ELSE "exited"
    /\ UNCHANGED <<mutex, runnable, hooks, startCtx, runErr, selected, startHook,
                   sigHandler, stopPc, reversed, stopHook, stopCtx, stopErr, logs>>
    /\ UNCHANGED notBootVars

\* A stop hook returns while callStopHooks waits for it: with an error it
\* blocks sending it to errChan.
StopHookReturn(rd, h, failed) ==
    /\ Alive
    /\ stopErr[rd] = "waiting"
    /\ stopHook[rd][h] = "running"
    /\ stopHook' = [stopHook EXCEPT ![rd][h] = IF failed THEN "sending" ELSE "ok"]
    /\ UNCHANGED <<startPc, mutex, runnable, hooks, startCtx, selfCtx, runErr, selected,
                   startHook, sigHandler, sigs, stopPc, reversed, stopCtx, stopErr, logs>>
    /\ UNCHANGED notBootVars

\* stopTimeout elapses while stop() waits for the stop hooks.
StopTimeout(rd) ==
    /\ Alive
    /\ stopErr[rd] = "waiting"
    /\ stopCtx[rd] = "live"
    /\ stopCtx' = [stopCtx EXCEPT ![rd] = "timeout"]
    /\ UNCHANGED <<startPc, mutex, runnable, hooks, startCtx, selfCtx, runErr, selected,
                   startHook, sigHandler, sigs, stopPc, reversed, stopHook, stopErr, logs>>
    /\ UNCHANGED notBootVars

\* stop() returns err: its deferred cancel ends the context of the hooks;
\* Start logs the error and returns, Stop returns it; the mutex is released.
StopReturn(rd, err) ==
    /\ stopErr' = [stopErr EXCEPT ![rd] = err]
    /\ stopCtx' = [stopCtx EXCEPT ![rd] = IF @ = "live" THEN "cancelled" ELSE @]
    /\ mutex' = "free"
    /\ startPc' = IF rd = "Start" THEN "returned" ELSE startPc
    /\ stopPc' = IF rd = "Stop" THEN "returned" ELSE stopPc
    /\ logs' = IF rd = "Start" /\ err # "nil" THEN logs \cup {"failed to stop"} ELSE logs
    /\ UNCHANGED <<runnable, hooks, startCtx, selfCtx, runErr, selected, startHook,
                   sigHandler, sigs, reversed>>
    /\ UNCHANGED notBootVars

\* waitDoneOrContextDone of callStopHooks: every stop hook has returned nil.
StopHooksDone(rd) ==
    /\ Alive
    /\ stopErr[rd] = "waiting"
    /\ AllDone(stopHook[rd])
    /\ UNCHANGED stopHook
    /\ StopReturn(rd, "nil")

\* waitDoneOrContextDone of callStopHooks: the error of a hook is received.
StopHookError(rd, h) ==
    /\ Alive
    /\ stopErr[rd] = "waiting"
    /\ stopHook[rd][h] = "sending"
    /\ stopHook' = [stopHook EXCEPT ![rd][h] = "failed"]
    /\ StopReturn(rd, "error")

\* waitDoneOrContextDone of callStopHooks: the context is done.
StopCtxDone(rd) ==
    /\ Alive
    /\ stopErr[rd] = "waiting"
    /\ stopCtx[rd] = "timeout"
    /\ UNCHANGED stopHook
    /\ StopReturn(rd, "ctx")

\* Stop is called: it waits for the mutex.
StopCall ==
    /\ Alive
    /\ stopPc = "none"
    /\ stopPc' = "waiting"
    /\ UNCHANGED <<startPc, mutex, runnable, hooks, startCtx, selfCtx, runErr, selected,
                   startHook, sigHandler, sigs, reversed, stopHook, stopCtx, stopErr, logs>>
    /\ UNCHANGED notBootVars

\* Stop has the mutex: selfCancel, then stop().
Stop ==
    /\ Alive
    /\ stopPc = "waiting"
    /\ mutex = "free"
    /\ selfCtx' = "cancelled"
    /\ stop("Stop")
    /\ stopPc' = IF hooks = <<>> THEN "returned" ELSE "stopping"
    /\ mutex' = IF hooks = <<>> THEN "free" ELSE "Stop"
    /\ UNCHANGED <<startPc, runnable, hooks, startCtx, runErr, selected, startHook,
                   sigHandler, sigs, logs>>
    /\ UNCHANGED notBootVars

BootNext ==
    \/ Start
    \/ \E r \in Runnables : RunnableAppend(r)
    \/ \E r \in Runnables, failed \in BOOLEAN : RunnableReturn(r, failed)
    \/ StartTimeout
    \/ RunnablesDone
    \/ \E r \in Runnables : RunnableError(r)
    \/ RunnablesCtxDone
    \/ \E h \in Runnables, failed \in BOOLEAN : StartHookReturn(h, failed)
    \/ StartHookError
    \/ StartHooksDone
    \/ StartCancelled
    \/ Signal
    \/ \E rd \in Rounds, h \in Runnables, failed \in BOOLEAN : StopHookReturn(rd, h, failed)
    \/ \E rd \in Rounds : StopTimeout(rd)
    \/ \E rd \in Rounds : StopHooksDone(rd)
    \/ \E rd \in Rounds, h \in Runnables : StopHookError(rd, h)
    \/ \E rd \in Rounds : StopCtxDone(rd)
    \/ StopCall
    \/ Stop

\* The steps Start and Stop take by themselves, and the timeouts.
BootFairness ==
    /\ WF_vars(StartTimeout)
    /\ WF_vars(RunnablesDone)
    /\ WF_vars(\E r \in Runnables : RunnableError(r))
    /\ WF_vars(RunnablesCtxDone)
    /\ WF_vars(StartHookError)
    /\ WF_vars(StartHooksDone)
    /\ WF_vars(StartCancelled)
    /\ WF_vars(\E rd \in Rounds : StopTimeout(rd))
    /\ WF_vars(\E rd \in Rounds : StopHooksDone(rd))
    /\ WF_vars(\E rd \in Rounds, h \in Runnables : StopHookError(rd, h))
    /\ WF_vars(\E rd \in Rounds : StopCtxDone(rd))
    /\ WF_vars(Stop)

(***************************************************************************)
(* Listener middlewares and Drain (text-to-speech listener).               *)
(***************************************************************************)
Requests == {"q1", "q2"}
Methods == {"POST", "OPTIONS"}

\* A chain that registers the cancel handle last.
MiddlewaresCancellableLast ==
    <<"InitMetadata", "AccessLog", "RequestTimer", "Options", "ResponseHandler",
      "Recover", "RejectAfterDrained", "Cancellable">>

\* The middlewares RegisterRoutes hands to WithMiddlewares.
Middlewares ==
    <<"Cancellable", "InitMetadata", "AccessLog", "RequestTimer", "Options",
      "ResponseHandler", "Recover", "RejectAfterDrained">>

\* WithMiddlewares: the first middleware is the outermost, so the i-th one
\* is the i-th a request enters.
WithMiddlewares(ms, i) == ms[i]

\* WithRejectAfterDrainedWithError that lets every request through.
RejectsNever(hasDrained) == FALSE

\* WithRejectAfterDrainedWithError: `if d.HasDrained()`.
Rejects(hasDrained) == hasDrained

\* WithOptions: `if request.Method == http.MethodOptions`.
ShortCircuits(method) == method = "OPTIONS"

DrainInit ==
    /\ drained = FALSE
    /\ drainPc = "none"
    /\ reqPc = [r \in Requests |-> "new"]
    /\ reqAt = [r \in Requests |-> 1]
    /\ reqMethod = [r \in Requests |-> "POST"]
    /\ requestCancelMap = {}
    /\ reqCtx = [r \in Requests |-> "live"]
    /\ reqResp = [r \in Requests |-> "none"]
    /\ afterDrain = [r \in Requests |-> FALSE]
    /\ reachedCore = [r \in Requests |-> FALSE]

\* A request reaches the listener.
Arrive(r, method) ==
    /\ reqPc[r] = "new"
    /\ reqPc' = [reqPc EXCEPT ![r] = "chain"]
    /\ reqMethod' = [reqMethod EXCEPT ![r] = method]
    /\ afterDrain' = [afterDrain EXCEPT ![r] = drained]
    /\ UNCHANGED <<reqAt, drained, drainPc, requestCancelMap, reqCtx, reqResp, reachedCore>>
    /\ UNCHANGED notDrainVars

\* The request enters its next middleware, which hands it to the one
\* after it (the core handler after the last) or answers it.
Enter(r) ==
    /\ reqPc[r] = "chain"
    /\ LET mw == WithMiddlewares(Middlewares, reqAt[r])
           answered == IF mw = "Options" THEN ShortCircuits(reqMethod[r])
                       ELSE IF mw = "RejectAfterDrained" THEN Rejects(drained)
                       ELSE FALSE
           next == IF answered THEN "unwind"
                   ELSE IF reqAt[r] = Len(Middlewares) THEN "core"
                   ELSE "chain"
       IN
        /\ reqPc' = [reqPc EXCEPT ![r] = next]
        /\ reqAt' = [reqAt EXCEPT ![r] = IF next = "chain" THEN @ + 1 ELSE @]
        /\ requestCancelMap' = IF mw = "Cancellable"
                                 THEN requestCancelMap \cup {r}
                                 ELSE requestCancelMap
        /\ reqResp' = [reqResp EXCEPT ![r] =
                IF ~answered THEN @
                ELSE IF mw = "Options" THEN "204" ELSE "service_unavailable"]
        /\ reachedCore' = [reachedCore EXCEPT ![r] = @ \/ next = "core"]
    /\ UNCHANGED <<drained, drainPc, reqMethod, reqCtx, afterDrain>>
    /\ UNCHANGED notDrainVars

\* The core handler returns.
CoreReturn(r) ==
    /\ reqPc[r] = "core"
    /\ reqPc' = [reqPc EXCEPT ![r] = "unwind"]
    /\ reqResp' = [reqResp EXCEPT ![r] = "handled"]
    /\ UNCHANGED <<reqAt, drained, drainPc, reqMethod, requestCancelMap, reqCtx, afterDrain,
                   reachedCore>>
    /\ UNCHANGED notDrainVars

\* The middlewares return: WithCancellable removes the cancel handle.
Return(r) ==
    /\ reqPc[r] = "unwind"
    /\ reqPc' = [reqPc EXCEPT ![r] = "done"]
    /\ requestCancelMap' = requestCancelMap \ {r}
    /\ UNCHANGED <<reqAt, drained, drainPc, reqMethod, reqCtx, reqResp, afterDrain, reachedCore>>
    /\ UNCHANGED notDrainVars

\* Drain: sets drained and starts the timer of CancelAllAfter.
Drain ==
    /\ drainPc = "none"
    /\ drained' = TRUE
    /\ drainPc' = "waiting"
    /\ UNCHANGED <<reqPc, reqAt, reqMethod, requestCancelMap, reqCtx, reqResp, afterDrain,
                   reachedCore>>
    /\ UNCHANGED notDrainVars

\* CancelAllAfter: the timer fires and cancels every handle in the map.
CancelAllAfter ==
    /\ drainPc = "waiting"
    /\ drainPc' = "fired"
    /\ reqCtx' = [r \in Requests |->
            IF r \in requestCancelMap THEN "cancelled" ELSE reqCtx[r]]
    /\ UNCHANGED <<drained, reqPc, reqAt, reqMethod, requestCancelMap, reqResp, afterDrain,
                   reachedCore>>
    /\ UNCHANGED notDrainVars

\* CancelAll and CancelAllWithContext: every handle in the map is cancelled
\* at once, whether or not Drain was called.
CancelAll ==
    /\ \E r \in requestCancelMap : reqCtx[r] = "live"
    /\ reqCtx' = [r \in Requests |->
            IF r \in requestCancelMap THEN "cancelled" ELSE reqCtx[r]]
    /\ UNCHANGED <<drained, drainPc, reqPc, reqAt, reqMethod, requestCancelMap, reqResp,
                   afterDrain, reachedCore>>
    /\ UNCHANGED notDrainVars

DrainNext ==
    \/ \E r \in Requests, method \in Methods : Arrive(r, method)
    \/ \E r \in Requests : Enter(r)
    \/ \E r \in Requests : CoreReturn(r)
    \/ \E r \in Requests : Return(r)
    \/ Drain
    \/ CancelAllAfter
    \/ CancelAll

(***************************************************************************)
(* The core handler of a request and the cluster's upstream request.       *)
(***************************************************************************)
\* An error: whether it is an LLMError, its code, its HTTP status and the
\* code of the error it wraps.
NoError == [llm |-> FALSE, code |-> "nil", status |-> 0, cause |-> "nil"]
PlainError(msg) == [llm |-> FALSE, code |-> msg, status |-> 0, cause |-> "nil"]
NewErrorMissingAPIKey ==
    [llm |-> TRUE, code |-> "missing_api_key", status |-> 401, cause |-> "nil"]
NewErrorIncorrectAPIKey ==
    [llm |-> TRUE, code |-> "incorrect_api_key", status |-> 401, cause |-> "nil"]
NewErrorServiceUnavailable ==
    [llm |-> TRUE, code |-> "service_unavailable", status |-> 503, cause |-> "nil"]
NewErrorInternalError(err) ==
    [llm |-> TRUE, code |-> "internal_error", status |-> 500, cause |-> err.code]
NewErrorBadGateway(err) ==
    [llm |-> TRUE, code |-> "bad_gateway", status |-> 502, cause |-> err.code]
\* An LLMError a filter or the upstream's answer carries.
NewErrorRateLimitExceeded ==
    [llm |-> TRUE, code |-> "model_rate_limit_exceeded", status |-> 429, cause |-> "nil"]
SkipStreamResponse == PlainError("skip_stream_response")

\* LLMErrorOrInternalError that hands the error back as it is.
LLMErrorOrInternalErrorUnwrapped(err) == err

\* LLMErrorOrInternalError of one error that is not nil.
LLMErrorOrInternalError(err) == IF err.llm THEN err ELSE NewErrorInternalError(err)

\* Authorization headers, as the words of the header's value.
Headers == {<<>>, <<"Basic", "k">>, <<"Bearer", "">>, <<"Bearer", "k">>}

\* BearerMarshal: the token and the error.
BearerMarshal(header) ==
    IF header = <<>>
      THEN [token |-> "", err |-> PlainError("missing Authorization header")]
    ELSE IF header[1] # "Bearer"
      THEN [token |-> "", err |-> PlainError("invalid Authorization header format")]
    ELSE IF header[2] = ""
      THEN [token |-> "", err |-> PlainError("missing API Key in Authorization header")]
    ELSE [token |-> header[2], err |-> NoError]

\* The answers of the auth server's APIKeyAuth.
AuthAnswers == {"valid", "invalid", "not_found", "unavailable", "rpc_error"}

\* AuthFilter.OnRequestPre that lets a request without a token through.
OnRequestPreUnchecked(header, answer) == NoError

\* AuthFilter.OnRequestPre: the error of the failed result, NoError for ok.
OnRequestPre(header, answer) ==
    IF BearerMarshal(header).err # NoError THEN NewErrorMissingAPIKey
    ELSE IF answer = "rpc_error" THEN PlainError("rpc error")
    ELSE IF answer = "not_found" THEN NewErrorIncorrectAPIKey
    ELSE IF answer = "unavailable" THEN NewErrorServiceUnavailable
    ELSE IF answer = "invalid" THEN NewErrorIncorrectAPIKey
    ELSE NoError

\* The results a filter or a stage may have: ok, an LLMError, another error.
StageResults == {NoError, NewErrorRateLimitExceeded, PlainError("failed")}

\* The stages of DoUpstreamRequest, in the order of the code.
ClusterStages ==
    <<"request_modifier", "marshaller", "upstream", "response_unmarshaller",
      "response_modifier", "response_complete">>

RequestTypes == {"chat_completions", "image_generations", "text_to_speech"}

\* The type-specific request filters exist for these request types.
HasTypeFilters(requestType) == requestType \in {"chat_completions", "image_generations"}

\* The first error of a sequence of results, NoError when all are ok.
RECURSIVE FirstFailed(_)
FirstFailed(results) ==
    IF results = <<>> THEN NoError
    ELSE IF results[1] # NoError THEN results[1]
    ELSE FirstFailed(Tail(results))

\* The stages before stage i did not fail.
RECURSIVE StagesRun(_, _)
StagesRun(results, i) ==
    IF i > Len(ClusterStages) THEN <<>>
    ELSE IF ClusterStages[i] = "response_complete" /\ results.isStream
      THEN <<>>  \* left to the detached task
    ELSE IF results[ClusterStages[i]] # NoError THEN <<ClusterStages[i]>>
    ELSE <<ClusterStages[i]>> \o StagesRun(results, i + 1)

\* clusterDefault.DoUpstreamRequest: the stages it ran, the response and
\* the error it returns. results gives the result of every stage and
\* whether the response is a stream.
DoUpstreamRequest(results) ==
    LET ran == StagesRun(results, 1)
        last == ran[Len(ran)]
        e == results[last]
    IN IF e = NoError
         THEN [ran |-> ran, err |-> NoError,
               resp |-> IF results.isStream THEN "stream" ELSE "response"]
       ELSE IF last = "upstream"
         THEN [ran |-> ran, resp |-> "nil", err |-> NewErrorBadGateway(e)]
       ELSE IF last = "response_complete"
         THEN [ran |-> ran, resp |-> "response", err |-> LLMErrorOrInternalError(e)]
       ELSE [ran |-> ran, resp |-> "nil", err |-> LLMErrorOrInternalError(e)]

\* The outcomes of the stages of DoUpstreamRequest: at most one stage
\* fails, since no stage runs after a failed one.
ClusterResults ==
    {[s \in {ClusterStages[i] : i \in 1..Len(ClusterStages)} |-> NoError]
        @@ [isStream |-> st] : st \in BOOLEAN}
    \cup
    {[s \in {ClusterStages[i] : i \in 1..Len(ClusterStages)} |->
            IF s = ClusterStages[f] THEN e ELSE NoError] @@ [isStream |-> st] :
        f \in 1..Len(ClusterStages), e \in StageResults \ {NoError}, st \in BOOLEAN}

NoReturn == [resp |-> "none", err |-> NoError]

HandlerInit ==
    /\ hin \in [header : Headers, answer : AuthAnswers, pre : StageResults,
                parse : {NoError, PlainError("failed")}, requestType : RequestTypes,
                typeFilter : StageResults, cluster : ClusterResults]
    /\ hpc = "pre"
    /\ htrace = <<>>
    /\ hdefers = <<>>
    /\ herr = NoError
    /\ hresp = "nil"
    /\ hret = NoReturn
    /\ hfailed = NoError
    /\ postSaw = <<>>

HandlerIdle ==
    /\ hin = [header |-> <<>>, answer |-> "valid", pre |-> NoError, parse |-> NoError,
              requestType |-> "text_to_speech", typeFilter |-> NoError,
              cluster |-> CHOOSE c \in ClusterResults :
                             ~c.isStream /\ DoUpstreamRequest(c).err = NoError]
    /\ hpc = "pre"
    /\ htrace = <<>>
    /\ hdefers = <<>>
    /\ herr = NoError
    /\ hresp = "nil"
    /\ hret = NoReturn
    /\ hfailed = NoError
    /\ postSaw = <<>>

\* The listener's OnRequestPre filters: the auth filter, then another one.
PreFilters ==
    /\ hpc = "pre"
    /\ LET failed == FirstFailed(<<OnRequestPre(hin.header, hin.answer), hin.pre>>) IN
        /\ hfailed' = failed
        /\ hret' = IF failed # NoError THEN [resp |-> "nil", err |-> failed] ELSE hret
        /\ hpc' = IF failed # NoError THEN "done" ELSE "parse"
    /\ htrace' = Append(htrace, "pre_filters")
    /\ UNCHANGED <<hin, hdefers, herr, hresp, postSaw>>
    /\ UNCHANGED notHandlerVars

\* The deferred OnResponsePost filters are registered, then the body is
\* parsed.
Parse ==
    /\ hpc = "parse"
    /\ hdefers' = Append(hdefers, "response_post")
    /\ htrace' = Append(htrace, "parse")
    /\ herr' = hin.parse
    /\ hret' = IF hin.parse # NoError THEN [resp |-> "nil", err |-> hin.parse] ELSE hret
    /\ hpc' = IF hin.parse # NoError THEN "deferred" ELSE "type"
    /\ UNCHANGED <<hin, hresp, hfailed, postSaw>>
    /\ UNCHANGED notHandlerVars

\* The type-specific request filters; on success the deferred
\* OnCompletionResponse filters are registered.
TypeFilters ==
    /\ hpc = "type"
    /\ LET failed == IF HasTypeFilters(hin.requestType) THEN hin.typeFilter ELSE NoError IN
        /\ hfailed' = failed
        /\ hret' = IF failed # NoError THEN [resp |-> "nil", err |-> failed] ELSE hret
        /\ hpc' = IF failed # NoError THEN "deferred" ELSE "route"
        /\ hdefers' = IF failed # NoError THEN hdefers
                       ELSE Append(hdefers, "completion_response")
    /\ htrace' = IF HasTypeFilters(hin.requestType)
                   THEN Append(htrace, "type_filters") ELSE htrace
    /\ UNCHANGED <<hin, herr, hresp, postSaw>>
    /\ UNCHANGED notHandlerVars

\* routemanager.HandleRequest, with a route that matches and one cluster;
\* a stream is then piped to the client.
Route ==
    /\ hpc = "route"
    /\ LET r == DoUpstreamRequest(hin.cluster) IN
        /\ hresp' = r.resp
        /\ herr' = r.err
        /\ htrace' = htrace \o <<"route">> \o r.ran
                        \o (IF r.err = NoError /\ r.resp = "stream"
                              THEN <<"pipe">> ELSE <<>>)
        /\ hret' = IF r.err # NoError THEN [resp |-> r.resp, err |-> r.err]
                    ELSE IF r.resp = "stream"
                      THEN [resp |-> r.resp, err |-> SkipStreamResponse]
                    ELSE [resp |-> r.resp, err |-> NoError]
    /\ hpc' = "deferred"
    /\ UNCHANGED <<hin, hdefers, hfailed, postSaw>>
    /\ UNCHANGED notHandlerVars

\* The handler returns: the deferred functions run, last registered first.
HandlerReturn ==
    /\ hpc = "deferred"
    /\ htrace' = htrace
            \o (IF Len(hdefers) = 2 /\ hresp = "response"
                  THEN <<"completion_response">> ELSE <<>>)
            \o <<"response_post">>
    /\ postSaw' = Append(postSaw, [resp |-> hresp, err |-> herr])
    /\ hpc' = "done"
    /\ UNCHANGED <<hin, hdefers, herr, hresp, hret, hfailed>>
    /\ UNCHANGED notHandlerVars

HandlerNext ==
    \/ PreFilters
    \/ Parse
    \/ TypeFilters
    \/ Route
    \/ HandlerReturn

(***************************************************************************)
(* Load balancers: WeightedRoundRobin and WeightedLeastRequest.            *)
(***************************************************************************)
\* The calls of Next of one run.
MaxNextCalls == 5

Goroutines == {"g1", "g2"}
TargetNames == <<"backend1", "backend2", "backend3">>
Weights == {0, 1, 2}

\* newServers: the targets of a route, one to Len(TargetNames) of them.
ServerConfigs ==
    UNION {{[i \in 1..n |-> [name |-> TargetNames[i], weight |-> w[i]]] :
               w \in [1..n -> Weights]} : n \in 1..Len(TargetNames)}

\* atomic.Int32.And: the bitwise AND of the value and the mask, both in
\* two's complement (-1 is all ones).
RECURSIVE And(_, _)
And(x, mask) ==
    IF x = 0 \/ mask = 0 THEN 0
    ELSE IF x = -1 THEN mask
    ELSE IF mask = -1 THEN x
    ELSE ((x % 2) * (mask % 2)) + 2 * And(x \div 2, mask \div 2)

\* memoryRequestCounter.Desc: the count after the call.
Desc(count) == IF count > 0 THEN And(count, -1) ELSE count

\* The float64 quotient count / weight: NaN for 0/0, +Inf for a positive
\* count over 0, the fraction otherwise.
LoadRatio(count, weight) ==
    IF weight = 0
      THEN (IF count = 0 THEN [kind |-> "NaN", n |-> 0, d |-> 1]
            ELSE [kind |-> "Inf", n |-> 1, d |-> 0])
    ELSE [kind |-> "num", n |-> count, d |-> weight]

\* float64(-1)
MinusOne == [kind |-> "num", n |-> -1, d |-> 1]

\* a < b on float64
FloatLess(a, b) ==
    IF a.kind = "NaN" \/ b.kind = "NaN" THEN FALSE
    ELSE IF a.kind = "Inf" THEN FALSE
    ELSE IF b.kind = "Inf" THEN TRUE
    ELSE a.n * b.d < b.n * a.d

\* a == b on float64
FloatEq(a, b) ==
    IF a.kind = "NaN" \/ b.kind = "NaN" THEN FALSE
    ELSE IF a.kind = "Inf" \/ b.kind = "Inf" THEN a.kind = b.kind
    ELSE a.n * b.d = b.n * a.d

\* calculateTotalWeight
RECURSIVE TotalWeight(_)
TotalWeight(ss) == IF ss = <<>> THEN 0 ELSE ss[1].weight + TotalWeight(Tail(ss))

\* The loop of WeightedRoundRobin.Next that stops at cumulative >= r.
RECURSIVE FindIndexInclusive(_, _, _, _, _)
FindIndexInclusive(ss, currentIndex, randomWeight, i, total) ==
    IF i >= Len(ss) THEN -1
    ELSE LET idx == (currentIndex + i) % Len(ss)
             t == total + ss[idx + 1].weight
         IN IF t >= randomWeight THEN idx
            ELSE FindIndexInclusive(ss, currentIndex, randomWeight, i + 1, t)

\* The loop of WeightedRoundRobin.Next from its i-th iteration: the index
\* found, -1 when none is.
RECURSIVE FindIndex(_, _, _, _, _)
FindIndex(ss, currentIndex, randomWeight, i, total) ==
    IF i >= Len(ss) THEN -1
    ELSE LET idx == (currentIndex + i) % Len(ss)
             t == total + ss[idx + 1].weight
         IN IF t > randomWeight THEN idx
            ELSE FindIndex(ss, currentIndex, randomWeight, i + 1, t)

NoLocals == [i |-> 0, selected |-> 0, selectedServer |-> 0, least |-> MinusOne,
             snap |-> <<>>, loadRatio |-> MinusOne, left |-> 0]
NoDone == [before |-> 0, after |-> 0, called |-> FALSE]

LbInit ==
    /\ lbPolicy \in {"round_robin", "least_request"}
    /\ servers \in ServerConfigs
    /\ counters = [i \in 1..Len(servers) |-> 0]
    /\ lrCurrent = 0
    /\ rrCurrent = 0
    /\ gpc = [g \in Goroutines |-> "idle"]
    /\ gl = [g \in Goroutines |-> NoLocals]
    /\ returned = [g \in Goroutines |-> "none"]
    /\ picks = [i \in 1..Len(servers) |-> 0]
    /\ incs = [i \in 1..Len(servers) |-> 0]
    /\ nextCalls = 0
    /\ lastDone = NoDone

LbIdle ==
    /\ lbPolicy = "least_request"
    /\ servers = <<[name |-> TargetNames[1], weight |-> 1]>>
    /\ counters = <<0>>
    /\ lrCurrent = 0
    /\ rrCurrent = 0
    /\ gpc = [g \in Goroutines |-> "idle"]
    /\ gl = [g \in Goroutines |-> NoLocals]
    /\ returned = [g \in Goroutines |-> "none"]
    /\ picks = <<0>>
    /\ incs = <<0>>
    /\ nextCalls = 0
    /\ lastDone = NoDone

\* WeightedLeastRequest.Next, up to its loop: with one target it returns
\* that target at once; with more it reads w.current.
LRNext(g) ==
    /\ lbPolicy = "least_request"
    /\ gpc[g] = "idle"
    /\ returned[g] = "none"
    /\ nextCalls < MaxNextCalls
    /\ nextCalls' = nextCalls + 1
    /\ IF Len(servers) = 1
         THEN /\ returned' = [returned EXCEPT ![g] = servers[1].name]
              /\ picks' = [picks EXCEPT ![1] = @ + 1]
              /\ UNCHANGED <<gpc, gl>>
         ELSE /\ gpc' = [gpc EXCEPT ![g] = "lr_loop"]
              /\ gl' = [gl EXCEPT ![g] = [NoLocals EXCEPT !.selected = lrCurrent,
                                                        !.selectedServer = lrCurrent,
                                                        !.snap = counters]]
              /\ UNCHANGED <<returned, picks>>
    /\ UNCHANGED <<lbPolicy, servers, counters, lrCurrent, rrCurrent, incs, lastDone>>
    /\ UNCHANGED notLbVars

\* The locals of Next after the iteration i of its loop, loadRatio and
\* requestLess being what the iteration computed.
EndIteration(l, loadRatio, requestLess) ==
    LET take == FloatEq(l.least, MinusOne) \/ FloatLess(loadRatio, l.least) \/ requestLess
    IN [i |-> l.i + 1,
        selected |-> IF take THEN l.i ELSE l.selected,
        selectedServer |-> IF take THEN l.i ELSE l.selectedServer,
        least |-> IF take THEN loadRatio ELSE l.least,
        snap |-> l.snap, loadRatio |-> MinusOne, left |-> 0]

\* One iteration of the loop of WeightedLeastRequest.Next, from the load of
\* s.requestCounter.Current() for the load ratio: when the ratio differs
\* from the least one the iteration ends here, otherwise Less is called.
LRLoop(g) ==
    /\ gpc[g] = "lr_loop"
    /\ LET l == gl[g]
           loadRatio == LoadRatio(counters[l.i + 1], servers[l.i + 1].weight)
       IN
        IF FloatEq(loadRatio, l.least)
          THEN /\ gl' = [gl EXCEPT ![g] = [l EXCEPT !.loadRatio = loadRatio]]
               /\ gpc' = [gpc EXCEPT ![g] = "lr_less_left"]
          ELSE /\ gl' = [gl EXCEPT ![g] = EndIteration(l, loadRatio, FALSE)]
               /\ gpc' = [gpc EXCEPT ![g] =
                            IF l.i + 1 = Len(servers) THEN "lr_store" ELSE "lr_loop"]
    /\ UNCHANGED <<lbPolicy, servers, counters, lrCurrent, rrCurrent, returned, picks, incs,
                   nextCalls, lastDone>>
    /\ UNCHANGED notLbVars

\* memoryRequestCounter.Less, its left operand: m.Current() loads the
\* counter of s again.
LRLessLeft(g) ==
    /\ gpc[g] = "lr_less_left"
    /\ gl' = [gl EXCEPT ![g].left = counters[gl[g].i + 1]]
    /\ gpc' = [gpc EXCEPT ![g] = "lr_less_right"]
    /\ UNCHANGED <<lbPolicy, servers, counters, lrCurrent, rrCurrent, returned, picks, incs,
                   nextCalls, lastDone>>
    /\ UNCHANGED notLbVars

\* memoryRequestCounter.Less, its right operand: o.Current() loads the
\* counter of selectedServer; the iteration ends.
LRLessRight(g) ==
    /\ gpc[g] = "lr_less_right"
    /\ LET l == gl[g] IN
        /\ gl' = [gl EXCEPT ![g] =
                    EndIteration(l, l.loadRatio, l.left < counters[l.selectedServer + 1])]
        /\ gpc' = [gpc EXCEPT ![g] =
                     IF l.i + 1 = Len(servers) THEN "lr_store" ELSE "lr_loop"]
    /\ UNCHANGED <<lbPolicy, servers, counters, lrCurrent, rrCurrent, returned, picks, incs,
                   nextCalls, lastDone>>
    /\ UNCHANGED notLbVars

\* w.current = selected
LRStore(g) ==
    /\ gpc[g] = "lr_store"
    /\ lrCurrent' = gl[g].selected
    /\ gpc' = [gpc EXCEPT ![g] = "lr_inc"]
    /\ UNCHANGED <<lbPolicy, servers, counters, rrCurrent, gl, returned, picks, incs,
                   nextCalls, lastDone>>
    /\ UNCHANGED notLbVars

\* selectedServer.requestCounter.Inc() and the return of Next.
LRInc(g) ==
    /\ gpc[g] = "lr_inc"
    /\ LET s == gl[g].selectedServer + 1 IN
        /\ counters' = [counters EXCEPT ![s] = @ + 1]
        /\ incs' = [incs EXCEPT ![s] = @ + 1]
        /\ picks' = [picks EXCEPT ![s] = @ + 1]
        /\ returned' = [returned EXCEPT ![g] = servers[s].name]
    /\ gpc' = [gpc EXCEPT ![g] = "idle"]
    /\ gl' = [gl EXCEPT ![g] = NoLocals]
    /\ UNCHANGED <<lbPolicy, servers, lrCurrent, rrCurrent, nextCalls, lastDone>>
    /\ UNCHANGED notLbVars

\* WeightedLeastRequest.Done, called by the goroutine whose Next returned.
LRDone(g) ==
    /\ lbPolicy = "least_request"
    /\ gpc[g] = "idle"
    /\ returned[g] # "none"
    /\ counters' = [counters EXCEPT ![lrCurrent + 1] = Desc(@)]
    /\ lastDone' = [before |-> counters[lrCurrent + 1],
                    after |-> Desc(counters[lrCurrent + 1]), called |-> TRUE]
    /\ returned' = [returned EXCEPT ![g] = "none"]
    /\ UNCHANGED <<lbPolicy, servers, lrCurrent, rrCurrent, gpc, gl, picks, incs, nextCalls>>
    /\ UNCHANGED notLbVars

\* WeightedRoundRobin.Next, up to the store of the next index: with one
\* target it returns that target at once. rand.Int panics when the total
\* weight is not positive: Next does not return, the panic unwinds the
\* goroutine.
RRNext(g, randomWeight) ==
    /\ lbPolicy = "round_robin"
    /\ gpc[g] = "idle"
    /\ returned[g] = "none"
    /\ nextCalls < MaxNextCalls
    /\ nextCalls' = nextCalls + 1
    /\ IF Len(servers) = 1
         THEN /\ randomWeight = 0
              /\ returned' = [returned EXCEPT ![g] = servers[1].name]
              /\ picks' = [picks EXCEPT ![1] = @ + 1]
              /\ UNCHANGED <<gpc, gl>>
         ELSE IF TotalWeight(servers) <= 0
         THEN /\ randomWeight = 0
              /\ gpc' = [gpc EXCEPT ![g] = "panicked"]
              /\ UNCHANGED <<returned, picks, gl>>
         ELSE /\ randomWeight < TotalWeight(servers)
              /\ LET found == FindIndex(servers, rrCurrent, randomWeight, 0, 0) IN
                    gl' = [gl EXCEPT ![g] = [NoLocals EXCEPT
                              !.selected = IF found = -1 THEN rrCurrent ELSE found]]
              /\ gpc' = [gpc EXCEPT ![g] = "rr_store"]
              /\ UNCHANGED <<returned, picks>>
    /\ UNCHANGED <<lbPolicy, servers, counters, lrCurrent, rrCurrent, incs, lastDone>>
    /\ UNCHANGED notLbVars

\* w.current.Store(nextIndex) and the return of Next.
RRStore(g) ==
    /\ gpc[g] = "rr_store"
    /\ rrCurrent' = (gl[g].selected + 1) % Len(servers)
    /\ returned' = [returned EXCEPT ![g] = servers[gl[g].selected + 1].name]
    /\ picks' = [picks EXCEPT ![gl[g].selected + 1] = @ + 1]
    /\ gpc' = [gpc EXCEPT ![g] = "idle"]
    /\ gl' = [gl EXCEPT ![g] = NoLocals]
    /\ UNCHANGED <<lbPolicy, servers, counters, lrCurrent, incs, nextCalls, lastDone>>
    /\ UNCHANGED notLbVars

\* WeightedRoundRobin.Done does nothing.
RRDone(g) ==
    /\ lbPolicy = "round_robin"
    /\ gpc[g] = "idle"
    /\ returned[g] # "none"
    /\ returned' = [returned EXCEPT ![g] = "none"]
    /\ UNCHANGED <<lbPolicy, servers, counters, lrCurrent, rrCurrent, gpc, gl, picks, incs,
                   nextCalls, lastDone>>
    /\ UNCHANGED notLbVars

LbNext ==
    \/ \E g \in Goroutines : LRNext(g)
    \/ \E g \in Goroutines : LRLoop(g)
    \/ \E g \in Goroutines : LRLessLeft(g)
    \/ \E g \in Goroutines : LRLessRight(g)
    \/ \E g \in Goroutines : LRStore(g)
    \/ \E g \in Goroutines : LRInc(g)
    \/ \E g \in Goroutines : LRDone(g)
    \/ \E g \in Goroutines, randomWeight \in 0..TotalWeight(servers) : RRNext(g, randomWeight)
    \/ \E g \in Goroutines : RRStore(g)
    \/ \E g \in Goroutines : RRDone(g)

(***************************************************************************)
(* Request and response bodies (pkg/types/openai): the byte view of a JSON *)
(* object and its parsed mapping, changed through JSON patches.            *)
(*                                                                         *)
(* A byte view is the sequence of the object's members <<key, value>> in   *)
(* the order they are written; the parsed mapping is the set of members.   *)
(* A nil buffer and a nil mapping are told apart from empty ones.          *)
(***************************************************************************)
RECURSIVE SetDefaultParamsLoop(_, _)
RECURSIVE SetOverrideParamsLoop(_, _)
RECURSIVE RemoveParamKeysLoop(_, _)

BodyKeys == {"model", "voice", "error"}
BodyValues == {"a", "c"}

DistinctKeys(bs) == \A i, j \in 1..Len(bs) : bs[i][1] = bs[j][1] => i = j
Bodies ==
    {bs \in UNION {[1..n -> BodyKeys \X BodyValues] : n \in 0..MaxMembers} : DistinctKeys(bs)}
ParamLists == {bs \in Bodies : Len(bs) <= MaxParams}
KeyLists ==
    {ks \in UNION {[1..n -> BodyKeys] : n \in 0..MaxParams} :
        \A i, j \in 1..Len(ks) : ks[i] = ks[j] => i = j}

NilBuffer == [nil |-> TRUE, bytes |-> <<>>]
NilParsed == [nil |-> TRUE, m |-> {}]

HasKey(bs, k) == \E i \in 1..Len(bs) : bs[i][1] = k
RemoveKey(bs, k, i) == [j \in 1..(Len(bs) - 1) |-> IF j < i THEN bs[j] ELSE bs[j + 1]]

\* json.Unmarshal into a map[string]any: nil bytes are not a JSON text.
JSONUnmarshal(buffer) ==
    IF buffer.nil THEN [err |-> TRUE, parsed |-> NilParsed]
    ELSE [err |-> FALSE,
          parsed |-> [nil |-> FALSE,
                      m |-> {buffer.bytes[i] : i \in 1..Len(buffer.bytes)}]]

\* utils.GetByJSONPath[string](parsed, "{ .key }"): the empty string when
\* the key is missing.
GetByJSONPath(parsed, k) ==
    IF \E mem \in parsed.m : mem[1] = k
    THEN (CHOOSE mem \in parsed.m : mem[1] = k)[2]
    ELSE ""

\* The patch operations the body types build.
NewReplace(k, v) == [op |-> "replace", key |-> k, value |-> v]
NewAdd(k, v) == [op |-> "add", key |-> k, value |-> v]
NewRemove(k) == [op |-> "remove", key |-> k, value |-> ""]

\* patch.ApplyWithOptions on a JSON object: replace needs the member to
\* exist, add sets it, remove needs it unless AllowMissingPathOnRemove.
ApplyWithOptions(bs, allowMissingPathOnRemove, patch) ==
    LET at == CHOOSE i \in 1..Len(bs) : bs[i][1] = patch.key
        set == [bs EXCEPT ![at] = <<patch.key, patch.value>>]
    IN CASE patch.op = "replace" ->
                IF HasKey(bs, patch.key) THEN [err |-> FALSE, bytes |-> set]
                ELSE [err |-> TRUE, bytes |-> <<>>]
         [] patch.op = "add" ->
                IF HasKey(bs, patch.key) THEN [err |-> FALSE, bytes |-> set]
                ELSE [err |-> FALSE,
                      bytes |-> Append(bs, <<patch.key, patch.value>>)]
         [] OTHER ->
                IF HasKey(bs, patch.key)
                THEN [err |-> FALSE, bytes |-> RemoveKey(bs, patch.key, at)]
                ELSE IF allowMissingPathOnRemove THEN [err |-> FALSE, bytes |-> bs]
                ELSE [err |-> TRUE, bytes |-> <<>>]

\* modifyBufferBodyAndParsed returns nil, nil and the error when the patch
\* does not apply; reading the bytes of a nil buffer panics.
modifyBufferBodyAndParsed(buffer, allowMissingPathOnRemove, patch) ==
    IF buffer.nil
    THEN [panic |-> TRUE, err |-> FALSE, buffer |-> buffer, parsed |-> NilParsed]
    ELSE LET patched == ApplyWithOptions(buffer.bytes, allowMissingPathOnRemove, patch)
             newBuffer == [nil |-> FALSE, bytes |-> patched.bytes]
         IN IF patched.err
            THEN [panic |-> FALSE, err |-> TRUE, buffer |-> NilBuffer, parsed |-> NilParsed]
            ELSE [panic |-> FALSE, err |-> FALSE, buffer |-> newBuffer,
                  parsed |-> JSONUnmarshal(newBuffer).parsed]

\* modifyBytesBodyAndParsed, the same on a byte slice: a nil slice is no
\* JSON document, so the patch fails on it.
modifyBytesBodyAndParsed(buffer, patch) ==
    IF buffer.nil
    THEN [err |-> TRUE, buffer |-> NilBuffer, parsed |-> NilParsed]
    ELSE LET r == modifyBufferBodyAndParsed(buffer, FALSE, patch)
         IN [err |-> r.err, buffer |-> r.buffer, parsed |-> r.parsed]

\* A request under a call: the three fields and how the call is going.
ReqState(buffer, parsed, model) ==
    [buffer |-> buffer, parsed |-> parsed, model |-> model, err |-> FALSE, panic |-> FALSE]

\* The assignment r.bodyBuffer, r.bodyParsed, err = modifyBufferBodyAndParsed(...),
\* which stores the results before err is looked at.
Assign(r, res) ==
    IF res.panic THEN [r EXCEPT !.panic = TRUE]
    ELSE [r EXCEPT !.buffer = res.buffer, !.parsed = res.parsed, !.err = res.err]

\* The tail of SetDefaultParams and SetOverrideParams: Model follows the
\* body's model when that is a string.
SyncModel(r) ==
    IF r.err \/ r.panic \/ GetByJSONPath(r.parsed, "model") = "" THEN r
    ELSE [r EXCEPT !.model = GetByJSONPath(r.parsed, "model")]

\* TextToSpeechRequest.SetModel
TextToSpeechSetModel(r, model) ==
    LET a == Assign(r, modifyBufferBodyAndParsed(r.buffer, FALSE, NewReplace("model", model)))
    IN IF a.err \/ a.panic THEN a ELSE [a EXCEPT !.model = model]

\* TextToSpeechRequest.SetDefaultParams, the loop over params
SetDefaultParamsLoop(r, params) ==
    IF params = <<>> \/ r.err \/ r.panic THEN r
    ELSE IF \E mem \in r.parsed.m : mem[1] = Head(params)[1]
    THEN SetDefaultParamsLoop(r, Tail(params))
    ELSE SetDefaultParamsLoop(
            Assign(r, modifyBufferBodyAndParsed(r.buffer, FALSE,
                          NewAdd(Head(params)[1], Head(params)[2]))),
            Tail(params))

\* TextToSpeechRequest.SetOverrideParams, the loop over params
SetOverrideParamsLoop(r, params) ==
    IF params = <<>> \/ r.err \/ r.panic THEN r
    ELSE SetOverrideParamsLoop(
            Assign(r, modifyBufferBodyAndParsed(r.buffer, FALSE,
                          NewAdd(Head(params)[1], Head(params)[2]))),
            Tail(params))

\* TextToSpeechRequest.RemoveParamKeys, the loop over keys
RemoveParamKeysLoop(r, keys) ==
    IF keys = <<>> \/ r.err \/ r.panic THEN r
    ELSE RemoveParamKeysLoop(
            Assign(r, modifyBufferBodyAndParsed(r.buffer, TRUE, NewRemove(Head(keys)))),
            Tail(keys))

\* unmarshalErrorResponseFromParsedBody: an "error" member makes an error
\* response, and so does a status of 400 to 599, unless the body's object
\* member is "error" and its message member is the empty string.
HasUpstreamError(status, parsed) ==
    \/ GetByJSONPath(parsed, "error") # ""
    \/ /\ status >= 400 /\ status < 600
       /\ GetByJSONPath(parsed, "object") = "error" => <<"message", "">> \notin parsed.m

\* The error bodies of a vLLM upstream: object "error", with or without a
\* message, which may be empty.
ObjectErrorBodies ==
    {<<<<"object", "error">>>>}
        \cup {<<<<"object", "error">>, <<"message", v>>>> : v \in {""} \cup BodyValues}

\* The bodies an upstream answers with.
UpstreamBodies == Bodies \cup ObjectErrorBodies

NoResp == [kind |-> "none", status |-> 0, body |-> <<>>]
UpstreamStatuses == {200, 500}

\* ChatCompletionsResponse.SetModel
ChatCompletionsResponseSetModel(resp, model) ==
    IF resp.hasError THEN [resp EXCEPT !.model = model, !.err = FALSE]
    ELSE LET res == modifyBytesBodyAndParsed(resp.responseBody, NewReplace("model", model))
         IN [resp EXCEPT !.responseBody = res.buffer, !.bodyParsed = res.parsed,
                         !.err = res.err, !.model = IF res.err THEN @ ELSE model]

\* NewChatCompletionResponse and processBytes
NewChatCompletionResponse(status, body) ==
    LET buffer == [nil |-> FALSE, bytes |-> body]
        parsed == JSONUnmarshal(buffer).parsed
    IN [responseBody |-> buffer, bodyParsed |-> parsed,
        model |-> GetByJSONPath(parsed, "model"),
        hasError |-> HasUpstreamError(status, parsed), err |-> FALSE]

\* What the cluster hands back for an upstream answer: the response
\* unmarshaller, the response modifier, and the manager's look at the
\* response's error.
ClusterResponse(status, body) ==
    LET resp == ChatCompletionsResponseSetModel(NewChatCompletionResponse(status, body),
                                                ClusterName)
    IN IF resp.err THEN [kind |-> "internal_error", status |-> 500, body |-> <<>>]
       ELSE IF resp.hasError THEN [kind |-> "upstream_error", status |-> status, body |-> <<>>]
       ELSE [kind |-> "body", status |-> status, body |-> resp.responseBody.bytes]

\* NewTextToSpeechRequest over every body the listener can read.
BodyInit ==
    /\ \E body \in Bodies :
          /\ bodyBuffer = [nil |-> FALSE, bytes |-> body]
          /\ bodyParsed = JSONUnmarshal([nil |-> FALSE, bytes |-> body]).parsed
          /\ ttsModel = GetByJSONPath(JSONUnmarshal([nil |-> FALSE, bytes |-> body]).parsed, "model")
    /\ bodyOps = 0
    /\ bodyPanic = FALSE
    /\ bodyErr = FALSE
    /\ upResp = NoResp
    /\ respOut = NoResp

BodyIdle ==
    /\ bodyBuffer = [nil |-> FALSE, bytes |-> <<>>]
    /\ bodyParsed = [nil |-> FALSE, m |-> {}]
    /\ ttsModel = ""
    /\ bodyOps = 0
    /\ bodyPanic = FALSE
    /\ bodyErr = FALSE
    /\ upResp = NoResp
    /\ respOut = NoResp

\* The result of one call stored back into the request.
Store(r) ==
    /\ bodyBuffer' = r.buffer
    /\ bodyParsed' = r.parsed
    /\ ttsModel' = r.model
    /\ bodyErr' = r.err
    /\ bodyPanic' = r.panic
    /\ bodyOps' = bodyOps + 1
    /\ UNCHANGED <<upResp, respOut>>

CanCall == bodyOps < MaxOps /\ ~bodyPanic

SetModel(model) ==
    /\ CanCall
    /\ Store(TextToSpeechSetModel(ReqState(bodyBuffer, bodyParsed, ttsModel), model))
    /\ UNCHANGED notBodyVars

SetDefaultParams(params) ==
    /\ CanCall
    /\ Store(SyncModel(SetDefaultParamsLoop(ReqState(bodyBuffer, bodyParsed, ttsModel), params)))
    /\ UNCHANGED notBodyVars

SetOverrideParams(params) ==
    /\ CanCall
    /\ Store(SyncModel(SetOverrideParamsLoop(ReqState(bodyBuffer, bodyParsed, ttsModel), params)))
    /\ UNCHANGED notBodyVars

RemoveParamKeys(keys) ==
    /\ CanCall
    /\ Store(RemoveParamKeysLoop(ReqState(bodyBuffer, bodyParsed, ttsModel), keys))
    /\ UNCHANGED notBodyVars

\* The upstream answers and the cluster processes the answer.
UpstreamResponds(status, body) ==
    /\ bodyOps < MaxOps
    /\ upResp' = [kind |-> "body", status |-> status, body |-> body]
    /\ respOut' = ClusterResponse(status, body)
    /\ bodyOps' = bodyOps + 1
    /\ UNCHANGED <<bodyBuffer, bodyParsed, ttsModel, bodyPanic, bodyErr>>
    /\ UNCHANGED notBodyVars

BodyNext ==
    \/ \E params \in ParamLists : SetOverrideParams(params)
    \/ \E model \in BodyValues : SetModel(model)
    \/ \E params \in ParamLists : SetDefaultParams(params)
    \/ \E keys \in KeyLists : RemoveParamKeys(keys)
    \/ \E status \in UpstreamStatuses, body \in UpstreamBodies : UpstreamResponds(status, body)

(***************************************************************************)
(* The filters of a route (pkg/route/route): NewWithConfig builds the two  *)
(* lists, HandleRequest runs them around the cluster call.                 *)
(***************************************************************************)
FilterNames == {"f1", "f2", "f3"}

\* cfg.GetFilters(): the configured filters, in their configured order.
FilterLists ==
    {fs \in UNION {[1..n -> FilterNames] : n \in 0..Cardinality(FilterNames)} :
        \A i, j \in 1..Len(fs) : fs[i] = fs[j] => i = j}

\* utils.Clone: a copy of the slice, element for element.
Clone(s) == [i \in 1..Len(s) |-> s[i]]

\* NewWithConfig: routeFilters in the configured order, reversedRouteFilters
\* what the constructor stores in it.
RouteFilterInit ==
    /\ routeFilters \in FilterLists
    /\ reversedRouteFilters = Clone(routeFilters)
    /\ rfPc = "request"
    /\ rfReqStream \in BOOLEAN
    /\ rfStream = FALSE
    /\ rfReqRun = <<>>
    /\ rfRespRun = <<>>
    /\ rfChunks = 0

RouteFilterIdle ==
    /\ routeFilters = <<>>
    /\ reversedRouteFilters = <<>>
    /\ rfPc = "request"
    /\ rfReqStream = FALSE
    /\ rfStream = FALSE
    /\ rfReqRun = <<>>
    /\ rfRespRun = <<>>
    /\ rfChunks = 0

\* HandleRequest, request side: the next filter of routeFilters runs; when
\* it fails HandleRequest returns its error.
RouteRequestFilter(failed) ==
    /\ rfPc = "request"
    /\ Len(rfReqRun) < Len(routeFilters)
    /\ rfReqRun' = Append(rfReqRun, routeFilters[Len(rfReqRun) + 1])
    /\ rfPc' = IF failed THEN "done" ELSE "request"
    /\ UNCHANGED <<routeFilters, reversedRouteFilters, rfReqStream, rfStream, rfRespRun,
                   rfChunks>>
    /\ UNCHANGED notRouteFilterVars

\* The responses the cluster call of a chat completions request returns:
\* none, one that is not a stream, a stream.
ClusterResponses == {"nil", "body", "stream"}

\* HandleRequest of a chat completions request, after the cluster call has
\* returned resp: when the request is not a streaming one and resp is not
\* nil, every filter of reversedRouteFilters runs on resp, failures are
\* logged; then, when resp is a stream, the per-chunk callback is
\* registered on it.
RouteResponse(resp) ==
    /\ rfPc = "request"
    /\ Len(rfReqRun) = Len(routeFilters)
    /\ rfRespRun' = IF ~rfReqStream /\ resp # "nil" THEN reversedRouteFilters ELSE <<>>
    /\ rfStream' = (resp = "stream")
    /\ rfPc' = IF resp = "stream" THEN "stream" ELSE "done"
    /\ UNCHANGED <<routeFilters, reversedRouteFilters, rfReqStream, rfReqRun, rfChunks>>
    /\ UNCHANGED notRouteFilterVars

\* The per-chunk callback: every filter of reversedRouteFilters runs on the
\* chunk, failures are logged.
RouteChunk(last) ==
    /\ rfPc = "stream"
    /\ rfChunks < MaxChunks
    /\ rfChunks' = rfChunks + 1
    /\ rfRespRun' = reversedRouteFilters
    /\ rfPc' = IF last THEN "done" ELSE "stream"
    /\ UNCHANGED <<routeFilters, reversedRouteFilters, rfReqStream, rfStream, rfReqRun>>
    /\ UNCHANGED notRouteFilterVars

RouteFilterNext ==
    \/ \E failed \in BOOLEAN : RouteRequestFilter(failed)
    \/ \E resp \in ClusterResponses : RouteResponse(resp)
    \/ \E last \in BOOLEAN : RouteChunk(last)

(***************************************************************************)
(* One shard of the local rate limiter near its largest size. Every step   *)
(* is one call of checkBucketLocal (or one sweep of cleanup) under         *)
(* shard.mu, and every call reads its own time.Now(), later than the       *)
(* reading of the call before. The buckets are counted by the idle period  *)
(* after which they were last touched (their generation) and by whether    *)
(* shard.lastAccessTime holds their key: a bucket touched before an idle   *)
(* period of more than its TTL, max(maxTTL, window*ttlRate), has expired.  *)
(* Requests come in runs of one kind; a run gives way to another kind when *)
(* every count is within MarkWidth of zero or of maxBucketsPerShard.       *)
(***************************************************************************)
ShardGens == 0..MaxIdles

RECURSIVE SumUpTo(_, _)
SumUpTo(at, t) == IF t < 0 THEN 0 ELSE at[t] + SumUpTo(at, t - 1)

\* len(shard.buckets)
ShardLen(tr, un) == SumUpTo(tr, MaxIdles) + SumUpTo(un, MaxIdles)

\* The generation of the earliest entry of a count, NoTime when it has none.
OldestGen(at) ==
    IF \A g \in ShardGens : at[g] = 0 THEN NoTime
    ELSE CHOOSE g \in ShardGens : at[g] > 0 /\ \A o \in ShardGens : at[o] > 0 => g <= o

\* The generation of the least-recently-accessed bucket of the shard.
OldestBucket(tr, un) == OldestGen([g \in ShardGens |-> tr[g] + un[g]])

\* The generation of the bucket evictOldestBucket deletes: the loop ranges
\* over shard.lastAccessTime and keeps the earliest time that is
\* Before(now); the entries of other keys were all written by earlier
\* calls. With no such entry oldestKey stays "" and the deletes remove
\* nothing.
EvictedGen(tr) == OldestGen(tr)

\* evictOldestBucket, on the keys of shard.lastAccessTime other than the
\* caller's
evictOldestBucket(tr) ==
    IF EvictedGen(tr) = NoTime THEN tr ELSE [tr EXCEPT ![EvictedGen(tr)] = @ - 1]

\* initBucket's check: evictOldestBucket at maxBucketsPerShard buckets or more
AfterEviction(tr, un) ==
    IF ShardLen(tr, un) >= maxBucketsPerShard THEN evictOldestBucket(tr) ELSE tr

\* What initBucket found and dropped when it stored a bucket.
InsertFound(tr, un) ==
    [len |-> ShardLen(tr, un),
     dropped |-> ShardLen(tr, un) - ShardLen(AfterEviction(tr, un), un),
     droppedGen |-> IF ShardLen(tr, un) >= maxBucketsPerShard THEN EvictedGen(tr) ELSE NoTime,
     oldest |-> OldestBucket(tr, un),
     oldestTracked |-> OldestGen(tr)]

NoInsert == [len |-> 0, dropped |-> 0, droppedGen |-> NoTime, oldest |-> NoTime,
             oldestTracked |-> NoTime]

NoRun == [op |-> "none", gen |-> 0, tracked |-> FALSE]
InsertRun == [op |-> "insert", gen |-> 0, tracked |-> FALSE]
AccessRun(g, tr) == [op |-> "access", gen |-> g, tracked |-> tr]

AtMark(c) == c <= MarkWidth \/ c >= maxBucketsPerShard - MarkWidth

\* The current run of requests may give way to requests of another kind.
RunMayEnd ==
    \A g \in ShardGens : AtMark(shardTracked[g]) /\ AtMark(shardUntracked[g])

\* The next request is of the kind k.
ShardRequest(k) ==
    /\ \/ shardRun = k
       \/ RunMayEnd /\ shardRuns < MaxRuns
    /\ shardRun' = k
    /\ shardRuns' = IF shardRun = k THEN shardRuns ELSE shardRuns + 1

ShardInit ==
    /\ shardGen = 0
    /\ shardTracked = [g \in ShardGens |-> 0]
    /\ shardUntracked = [g \in ShardGens |-> 0]
    /\ shardRun = NoRun
    /\ shardRuns = 0
    /\ lastInsert = NoInsert

\* checkBucketLocal for a key without bucket: shard.lastAccessTime[key] =
\* now, then initBucket evicts when the shard holds maxBucketsPerShard
\* buckets and stores the new bucket.
ShardInsert ==
    /\ ShardRequest(InsertRun)
    /\ shardTracked' = [AfterEviction(shardTracked, shardUntracked)
                            EXCEPT ![shardGen] = @ + 1]
    /\ lastInsert' = InsertFound(shardTracked, shardUntracked)
    /\ UNCHANGED <<shardGen, shardUntracked>>
    /\ UNCHANGED notShardVars

\* checkBucketLocal for a key whose bucket was last touched in the
\* generation g, with (tr) or without an entry of shard.lastAccessTime:
\* the entry becomes now. updateBucket deletes an expired bucket together
\* with the entry just written and has initBucket store a new bucket, which
\* is left without entry; a live bucket is kept.
ShardAccess(g, tr) ==
    /\ IF tr THEN shardTracked[g] > 0 ELSE shardUntracked[g] > 0
    /\ ShardRequest(AccessRun(g, tr))
    /\ LET trackedLess == IF tr THEN [shardTracked EXCEPT ![g] = @ - 1] ELSE shardTracked
           untrackedLess == IF tr THEN shardUntracked ELSE [shardUntracked EXCEPT ![g] = @ - 1]
       IN IF g < shardGen
          THEN /\ shardTracked' = AfterEviction(trackedLess, untrackedLess)
               /\ shardUntracked' = [untrackedLess EXCEPT ![shardGen] = @ + 1]
               /\ lastInsert' = InsertFound(trackedLess, untrackedLess)
          ELSE /\ shardTracked' = [trackedLess EXCEPT ![shardGen] = @ + 1]
               /\ shardUntracked' = untrackedLess
               /\ UNCHANGED lastInsert
    /\ UNCHANGED shardGen
    /\ UNCHANGED notShardVars

\* No request reaches the shard for longer than the TTL of its buckets:
\* the buckets it holds have expired.
ShardIdle ==
    /\ shardGen < MaxIdles
    /\ RunMayEnd
    /\ shardGen' = shardGen + 1
    /\ shardRun' = NoRun
    /\ UNCHANGED <<shardTracked, shardUntracked, shardRuns, lastInsert>>
    /\ UNCHANGED notShardVars

\* cleanup, on this shard: every expired bucket is deleted with its entry
\* of shard.lastAccessTime.
ShardCleanup ==
    /\ RunMayEnd
    /\ \E g \in ShardGens : g < shardGen /\ shardTracked[g] + shardUntracked[g] > 0
    /\ shardTracked' = [g \in ShardGens |-> IF g < shardGen THEN 0 ELSE shardTracked[g]]
    /\ shardUntracked' = [g \in ShardGens |-> IF g < shardGen THEN 0 ELSE shardUntracked[g]]
    /\ shardRun' = NoRun
    /\ UNCHANGED <<shardGen, shardRuns, lastInsert>>
    /\ UNCHANGED notShardVars

ShardNext ==
    \/ ShardInsert
    \/ \E g \in ShardGens, tr \in BOOLEAN : ShardAccess(g, tr)
    \/ ShardIdle
    \/ ShardCleanup

(***************************************************************************)
(* The usage of an image generations response (pkg/types/openai).          *)
(***************************************************************************)
SizeFroms == {"nil", "UNSPECIFIED", "INPUT", "OUTPUT", "GREATEST"}

Dims == [width : 1..MaxSide, height : 1..MaxSide]

\* imageGenerationRequest.Size: nil, or a width and a height
NoSize == [set |-> FALSE, width |-> 0, height |-> 0]
RequestSizes == {NoSize} \cup {[set |-> TRUE, width |-> d.width, height |-> d.height] : d \in Dims}

\* r.Images: one to MaxImages images, each with the size of its content.
OutputLists == UNION {[1..n -> Dims] : n \in 1..MaxImages}

\* r.Usage.Images before resolveUsage
Unresolved == <<>>

\* The first lo.Map of resolveUsage: the width and the height of the
\* request's size, 0 and 0 without one.
UsageFromRequest(size) ==
    IF size.set THEN [width |-> size.width, height |-> size.height]
    ELSE [width |-> 0, height |-> 0]

\* The second lo.Map of resolveUsage, on the usage image at index: image is
\* the usage image the first map made, output the resolved image at index.
UsageForPolicy(from, size, image, output) ==
    IF from = "OUTPUT" THEN [width |-> output.width, height |-> output.height]
    ELSE IF from = "GREATEST" /\ size.set
              /\ size.width * size.height > image.width * image.height
         THEN [width |-> size.width, height |-> size.height]
    ELSE image

\* resolveUsage: r.Usage.Images when every image resolves.
resolveUsage(from, size, outs) ==
    [i \in 1..Len(outs) |->
        IF from \in {"OUTPUT", "GREATEST"}
          THEN UsageForPolicy(from, size, UsageFromRequest(size), outs[i])
          ELSE UsageFromRequest(size)]

ImageInit ==
    /\ sizeFrom \in SizeFroms
    /\ requestSize \in RequestSizes
    /\ outputs \in OutputLists
    /\ usageImages = Unresolved
    /\ usageErr = FALSE

ImageIdle ==
    /\ sizeFrom = "nil"
    /\ requestSize = NoSize
    /\ outputs = <<[width |-> 1, height |-> 1]>>
    /\ usageImages = Unresolved
    /\ usageErr = FALSE

\* processBytes calls resolveUsage; every image resolves.
ResolveUsage ==
    /\ usageImages = Unresolved
    /\ usageImages' = resolveUsage(sizeFrom, requestSize, outputs)
    /\ UNCHANGED <<sizeFrom, requestSize, outputs, usageErr>>
    /\ UNCHANGED notImageVars

\* processBytes calls resolveUsage; batchResolveImages fails for an image,
\* resolveUsage returns the error after the first map.
ResolveUsageFails ==
    /\ usageImages = Unresolved
    /\ ~usageErr
    /\ sizeFrom \in {"OUTPUT", "GREATEST"}
    /\ usageImages' = [i \in 1..Len(outputs) |-> UsageFromRequest(requestSize)]
    /\ usageErr' = TRUE
    /\ UNCHANGED <<sizeFrom, requestSize, outputs>>
    /\ UNCHANGED notImageVars

ImageNext ==
    \/ ResolveUsage
    \/ ResolveUsageFails

(***************************************************************************)
(* Specifications, one per component.                                      *)
(***************************************************************************)
InitFallback == FallbackInit /\ RegistryInit /\ StreamIdle /\ RateIdle /\ BootInit /\ DrainInit
    /\ HandlerIdle /\ LbIdle /\ BodyIdle /\ RouteFilterIdle /\ ShardInit /\ ImageIdle
SpecFallback == InitFallback /\ [][FallbackNext]_vars

InitRegistry == FallbackIdle /\ RegistryInit /\ StreamIdle /\ RateIdle /\ BootInit /\ DrainInit
    /\ HandlerIdle /\ LbIdle /\ BodyIdle /\ RouteFilterIdle /\ ShardInit /\ ImageIdle
SpecRegistry == InitRegistry /\ [][RegistryNext]_vars

InitStream == FallbackIdle /\ RegistryInit /\ StreamInit /\ RateIdle /\ BootInit /\ DrainInit
    /\ HandlerIdle /\ LbIdle /\ BodyIdle /\ RouteFilterIdle /\ ShardInit /\ ImageIdle
SpecStream == InitStream /\ [][StreamNext]_vars

\* The handler's goroutine and the detached task are both scheduled.
StreamFairness ==
    /\ WF_vars(NextChunkCall)
    /\ WF_vars(PipeCallbacks)
    /\ WF_vars(PipeLoop)
    /\ WF_vars(\E writeOk \in BOOLEAN : PipeStep(writeOk))
    /\ WF_vars(StreamCompleter)
SpecStreamFair == SpecStream /\ StreamFairness

InitRateLimit == FallbackIdle /\ RegistryInit /\ StreamIdle /\ RateInit /\ BootInit /\ DrainInit
    /\ HandlerIdle /\ LbIdle /\ BodyIdle /\ RouteFilterIdle /\ ShardInit /\ ImageIdle
SpecRateLimit == InitRateLimit /\ [][RateNext]_vars

InitBootKit == FallbackIdle /\ RegistryInit /\ StreamIdle /\ RateIdle /\ BootInit /\ DrainInit
    /\ HandlerIdle /\ LbIdle /\ BodyIdle /\ RouteFilterIdle /\ ShardInit /\ ImageIdle
SpecBootKit == InitBootKit /\ [][BootNext]_vars
SpecBootKitFair == SpecBootKit /\ BootFairness

InitDrain == FallbackIdle /\ RegistryInit /\ StreamIdle /\ RateIdle /\ BootInit /\ DrainInit
    /\ HandlerIdle /\ LbIdle /\ BodyIdle /\ RouteFilterIdle /\ ShardInit /\ ImageIdle
SpecDrain == InitDrain /\ [][DrainNext]_vars

InitHandler == FallbackIdle /\ RegistryInit /\ StreamIdle /\ RateIdle /\ BootInit /\ DrainInit
    /\ HandlerInit /\ LbIdle /\ BodyIdle /\ RouteFilterIdle /\ ShardInit /\ ImageIdle
SpecHandler == InitHandler /\ [][HandlerNext]_vars

InitBalancer == FallbackIdle /\ RegistryInit /\ StreamIdle /\ RateIdle /\ BootInit /\ DrainInit
    /\ HandlerIdle /\ LbInit /\ BodyIdle /\ RouteFilterIdle /\ ShardInit /\ ImageIdle
SpecBalancer == InitBalancer /\ [][LbNext]_vars

InitBody == FallbackIdle /\ RegistryInit /\ StreamIdle /\ RateIdle /\ BootInit /\ DrainInit
    /\ HandlerIdle /\ LbIdle /\ BodyInit /\ RouteFilterIdle /\ ShardInit /\ ImageIdle
SpecBody == InitBody /\ [][BodyNext]_vars

InitRouteFilters == FallbackIdle /\ RegistryInit /\ StreamIdle /\ RateIdle /\ BootInit
    /\ DrainInit /\ HandlerIdle /\ LbIdle /\ BodyIdle /\ RouteFilterInit /\ ShardInit /\ ImageIdle
SpecRouteFilters == InitRouteFilters /\ [][RouteFilterNext]_vars

InitShard == FallbackIdle /\ RegistryInit /\ StreamIdle /\ RateIdle /\ BootInit
    /\ DrainInit /\ HandlerIdle /\ LbIdle /\ BodyIdle /\ RouteFilterIdle /\ ShardInit /\ ImageIdle
SpecShard == InitShard /\ [][ShardNext]_vars

InitImage == FallbackIdle /\ RegistryInit /\ StreamIdle /\ RateIdle /\ BootInit
    /\ DrainInit /\ HandlerIdle /\ LbIdle /\ BodyIdle /\ RouteFilterIdle /\ ShardInit
    /\ ImageInit
SpecImage == InitImage /\ [][ImageNext]_vars

(***************************************************************************)
(* Claims about the route fallback loop.                                   *)
(***************************************************************************)
\* The retry budget of a route with a fallback block: max_retries, or the
\* default when max_retries is not set.
RetryBudget(cfg) == CoalesceOrEmpty(GetMaxRetries(cfg), defaultRouteFallbackMaxRetries)

\* C1: with a fallback block, the retry count never passes max_retries
\* (3 when max_retries is not set), so one request makes at most
\* max_retries + 1 cluster calls, and the error returned is the last one.
C1_BoundedRetries ==
    (fbCfg.set /\ calls > 0 /\ lastErr # NoErr) =>
        /\ retriedCount <= RetryBudget(fbCfg)
        /\ calls <= RetryBudget(fbCfg) + 1
        /\ (rpc = "returned" => retErr = lastErr)

\* C2 as stated: a retry happens only with a fallback block and after a
\* non-nil error, and a response whose error field is set is not retried.
C2_ResponseErrorNotRetried ==
    /\ (rpc = "loop" /\ calls > 0) => (fbCfg.set /\ lastErr # NoErr)
    /\ (calls > 0 /\ lastUpstream = "response_with_error") => rpc = "returned"

\* C2 as amended: a retry happens only with a fallback block and after a
\* non-nil error; a response whose error field is set reaches the route as
\* a non-nil error, and the route gives up on it only without a fallback
\* block or with the retry budget used up.
C2_RetryOnlyOnError ==
    /\ (rpc = "loop" /\ calls > 0) => (fbCfg.set /\ lastErr # NoErr)
    /\ (calls > 0 /\ lastUpstream = "response_with_error") =>
            /\ lastErr = ErrResponse
            /\ (rpc = "returned" =>
                   \/ ~fbCfg.set
                   \/ fbCfg.maxRetriesSet /\ retriedCount >= RetryBudget(fbCfg))

\* A response with its error field set has been retried.
C2_Witness ==
    /\ rpc = "loop"
    /\ calls > 1
    /\ lastUpstream = "response_with_error"
    /\ retriedCount > 0

(***************************************************************************)
(* Claims about the route registry.                                        *)
(***************************************************************************)
RouteSet == {routes[i] : i \in 1..Len(routes)}

\* C3: the effective route list is the union of the two maps, the
\* match-route winning on a name collision, and MatchRoute returns a route
\* of that list whose match contains exact X (none only when the list has
\* none), never a base-route shadowed by a match-route of the same name.
C3_EffectiveRoutes ==
    /\ Cardinality(RouteSet) = Len(routes)
    /\ \A n \in RouteNames :
          /\ matchRouteRegistry[n] # NoRoute =>
                /\ matchRouteRegistry[n] \in RouteSet
                /\ routeRegistry[n] \notin RouteSet
          /\ (matchRouteRegistry[n] = NoRoute /\ routeRegistry[n] # NoRoute) =>
                routeRegistry[n] \in RouteSet
    /\ \A r \in RouteSet :
          r \in {matchRouteRegistry[r.name], routeRegistry[r.name]}
    /\ regOp = "MatchRoute" =>
          /\ matched # NoRoute =>
                /\ matched \in RouteSet
                /\ matched.matchKind = "exact"
                /\ matched.matchValue = reqModel
                /\ (matched.kind = "base" => matchRouteRegistry[matched.name] = NoRoute)
          /\ matched = NoRoute =>
                \A r \in RouteSet :
                    ~(r.matchKind = "exact" /\ r.matchValue = reqModel /\ r.targets > 0)

\* Both maps hold a route of the same name, differently configured, both
\* matching the request, and MatchRoute returned the match-route.
C3_Witness ==
    /\ regOp = "MatchRoute"
    /\ \E n \in RouteNames :
          /\ matchRouteRegistry[n] # NoRoute
          /\ routeRegistry[n] # NoRoute
          /\ Match(routeRegistry[n], reqModel)
          /\ matched = matchRouteRegistry[n]

(***************************************************************************)
(* Claims about the streaming pipe.                                        *)
(***************************************************************************)
\* The events the claim expects for the lines i.. of an upstream stream:
\* every chunk that is not empty, in order, up to and including [DONE].
RECURSIVE ExpectedEvents(_, _)
ExpectedEvents(lines, i) ==
    IF i > Len(lines) THEN <<>>
    ELSE IF lines[i] = "done" THEN << <<"[DONE]", 0>> >>
    ELSE IF lines[i] = "plain" THEN ExpectedEvents(lines, i + 1)
    ELSE << <<"json", i>> >> \o ExpectedEvents(lines, i + 1)

\* An upstream response that was delivered whole (the body ended, no read
\* failed), holds at least one data chunk and only lines of the event-stream
\* format with payloads that parse.
DeliveredStream ==
    /\ readEnd = "EOF"
    /\ \E i \in 1..Len(upstream) :
          upstream[i] \in {"data", "data_unsorted", "data_no_model", "usage"}
    /\ \A i \in 1..Len(upstream) :
          upstream[i] \in {"data", "data_unsorted", "data_no_model", "usage", "plain", "done"}

\* C4: once the pipe has ended (and no write to the client failed) the
\* client has received exactly the upstream's chunks that are not empty,
\* in order, nothing dropped, duplicated or added, and the last event
\* written is data: [DONE].
C4_ClientReceivesStream ==
    (ppc = "ended" /\ ~writeFailed /\ DeliveredStream) =>
        /\ client = ExpectedEvents(upstream, 1)
        /\ client # <<>>
        /\ client[Len(client)] = <<"[DONE]", 0>>

(***************************************************************************)
(* Rate limiter claims.                                                    *)
(***************************************************************************)
\* The buckets whose history is recorded: created with the limit in force.
Tracked(k) ==
    /\ buckets[k] # NoBucket
    /\ ~limitChanged[k]
    /\ buckets[k].oldLimit = policy.limit

\* The window of the policy, in ticks.
WindowTicks == policy.window * TicksPerSecond

\* The number of requests of key k allowed at the times from..to.
AllowedBetween(k, from, to) ==
    Len(SelectSeq(allowedAt[k], LAMBDA x : x >= from /\ x <= to))

\* C5: for every bucket, after any sequence of accesses, limit changes
\* included, 0 <= tokens <= capacity, where capacity = limit * precision.
C5_TokensWithinCapacity ==
    \A k \in Keys :
        buckets[k] # NoBucket =>
            /\ buckets[k].capacity = buckets[k].oldLimit * precision
            /\ 0 <= buckets[k].tokens
            /\ buckets[k].tokens <= buckets[k].capacity

\* C6: the requests allowed for one key in any window of length W are at
\* most L + 1 (the windows taken half-open: the ticks now-W+1 .. now).
C6_AtMostLimitPlusOne ==
    \A k \in Keys :
        Tracked(k) =>
            AllowedBetween(k, now - WindowTicks + 1, now) <= policy.limit + 1

\* C6, amended: for a window W of whole seconds and a bucket that keeps the
\* limit L it was created with, the requests allowed for the key in any
\* window of length W (closed: the ticks now-W .. now) are at most 2L.
C6_AtMostTwiceLimit ==
    \A k \in Keys :
        Tracked(k) =>
            AllowedBetween(k, now - WindowTicks, now) <= 2 * policy.limit

\* A window in which a bucket of limit L >= 2 allowed 2L requests: the
\* burst of L and the refill of the whole window.
C6_Witness ==
    \E k \in Keys :
        /\ Tracked(k)
        /\ policy.limit >= 2
        /\ now > createdAt[k]
        /\ AllowedBetween(k, now - WindowTicks, now) = 2 * policy.limit

\* C7: under steady demand (a request denied at every tick, so requests
\* never stop arriving) at least L requests are allowed in any window of
\* length W (the ticks now-W .. now-1, all of them over).
C7_AtLeastLimitUnderSteadyDemand ==
    \A k \in Keys :
        (/\ Tracked(k)
         /\ now - WindowTicks >= steadySince[k]
         /\ now - WindowTicks >= createdAt[k])
        => AllowedBetween(k, now - WindowTicks, now - 1) >= policy.limit

(***************************************************************************)
(* Lifecycle kit claims.                                                   *)
(***************************************************************************)
\* C8: once Start was entered, whatever causes termination, a call of Stop
\* included, the registered OnStop hooks are invoked: a call of Stop made
\* while Start waits on its start hooks leads to the stop hooks being
\* launched (or to the forced exit of a second signal).
C8_StopCallInvokesStopHooks ==
    (startPc = "hooks" /\ stopPc = "waiting" /\ hooks # <<>>)
        ~> (reversed["Start"] # <<>> \/ reversed["Stop"] # <<>> \/ startPc = "exited")

\* C9: when an OnStop hook returns an error, every other OnStop hook is
\* still allowed to run to completion within stop_timeout: stop() does not
\* end, and cancel the context of the hooks, while one of them is running.
C9_StopErrorDoesNotShortCircuit ==
    \A rd \in Rounds :
        (stopErr[rd] = "error" /\ stopCtx[rd] = "cancelled") =>
            \A h \in Range(reversed[rd]) : stopHook[rd][h] # "running"

\* C9, amended: every OnStop hook is launched before any of them can
\* return; stop() ends at the first error it receives from a hook, which
\* is the one hook marked failed, cancelling the context of the others, and
\* Start logs it; stop() reports success only when every hook returned nil.
C9_FirstStopErrorEndsStop ==
    \A rd \in Rounds :
        /\ \A h \in Range(reversed[rd]) : stopHook[rd][h] # "none"
        /\ stopErr[rd] = "nil" => \A h \in Range(reversed[rd]) : stopHook[rd][h] = "ok"
        /\ stopErr[rd] = "error" <=> \E h \in Runnables : stopHook[rd][h] = "failed"
        /\ Cardinality({h \in Runnables : stopHook[rd][h] = "failed"}) <= 1
        /\ stopErr[rd] = "error" => stopCtx[rd] \in {"cancelled", "timeout"}
        /\ (rd = "Start" /\ stopErr[rd] = "error") => "failed to stop" \in logs

\* The stop hooks of Start ended on the error of one hook while the other
\* hook was still running.
C9_Witness ==
    /\ stopErr["Start"] = "error"
    /\ stopCtx["Start"] = "cancelled"
    /\ \E h \in Runnables : stopHook["Start"][h] = "running"
    /\ "failed to stop" \in logs

\* What holds once callRunnable has failed: no start hook runs, Start is
\* stopping or has returned, and the stop hooks it launched have returned
\* when stop() reports success.
RunnableFailureHandled ==
    runErr \in {"error", "ctx"} =>
        /\ \A h \in Runnables : startHook[h] = "none"
        /\ ~sigHandler
        /\ startPc \in {"stopping", "returned"}
        /\ "failed to run" \in logs
        /\ \A h \in Range(reversed["Start"]) : stopHook["Start"][h] # "none"
        /\ (startPc = "returned" /\ stopErr["Start"] = "nil") =>
               \A h \in Range(reversed["Start"]) : stopHook["Start"][h] = "ok"

\* The step in which callRunnable fails launches the stop hook of every
\* hook registered up to that point.
RunnableFailureStopsRegistered ==
    (runErr = "none" /\ runErr' \in {"error", "ctx"}) =>
        /\ Range(reversed'["Start"]) = Range(hooks)
        /\ \A h \in Range(hooks) : stopHook'["Start"][h] = "running"

\* C10: if a runnable returns an error, or the context of Start is done
\* before all runnables have returned, no OnStart hook is invoked and the
\* OnStop hook of every hook registered up to that point is invoked.
C10_RunnableFailureStopsWithoutStarting ==
    []RunnableFailureHandled /\ [][RunnableFailureStopsRegistered]_vars

\* Start returned after a runnable failed with two hooks registered, whose
\* stop hooks both ran.
C10_Witness ==
    /\ runErr = "error"
    /\ startPc = "returned"
    /\ Len(reversed["Start"]) = 2
    /\ \A h \in Runnables : stopHook["Start"][h] = "ok" /\ startHook[h] = "none"

(***************************************************************************)
(* Drain claims.                                                           *)
(***************************************************************************)
\* C11: once Drain has set drained, every request that reaches the
\* listener afterwards is answered with service_unavailable and never
\* reaches the core handler.
C11_RejectedAfterDrained ==
    \A r \in Requests :
        afterDrain[r] =>
            /\ ~reachedCore[r]
            /\ reqPc[r] = "done" => reqResp[r] = "service_unavailable"

\* C11, amended: once Drain has set drained, no request that reaches the
\* listener afterwards reaches the core handler: an OPTIONS request is
\* answered 204 by the options middleware, every other request is answered
\* with service_unavailable.
C11_NoCoreAfterDrained ==
    \A r \in Requests :
        afterDrain[r] =>
            /\ ~reachedCore[r]
            /\ reqPc[r] \in {"unwind", "done"} =>
                   reqResp[r] = IF reqMethod[r] = "OPTIONS"
                                  THEN "204" ELSE "service_unavailable"

\* A POST that arrived after Drain has been answered service_unavailable.
C11_Witness ==
    \E r \in Requests :
        /\ afterDrain[r]
        /\ reqMethod[r] = "POST"
        /\ reqPc[r] = "done"
        /\ reqResp[r] = "service_unavailable"

\* C12: every request holds a cancel handle in the map from its entry to
\* its return, and once the grace period of Drain has elapsed no request
\* is in the core handler with a context that is not cancelled.
C12_InFlightCancelledAfterGrace ==
    \A r \in Requests :
        /\ reqPc[r] \in {"core", "unwind"} => r \in requestCancelMap
        /\ reqPc[r] \in {"new", "done"} => r \notin requestCancelMap
        /\ (drainPc = "fired" /\ reqPc[r] = "core") => reqCtx[r] = "cancelled"

\* The grace period has elapsed with a request in the core handler, whose
\* context is cancelled.
C12_Witness ==
    \E r \in Requests :
        /\ drainPc = "fired"
        /\ reqPc[r] = "core"
        /\ reqCtx[r] = "cancelled"

(***************************************************************************)
(* Pipeline claims.                                                        *)
(***************************************************************************)
\* C13: the stages of a request run strictly in order, each starting only
\* after the previous one has finished, and response complete is the last:
\* for a stream, once the ResponseComplete filters have run no per-chunk
\* filter runs any more.
C13_ResponseCompleteLast == [][completed => filtered' = filtered]_vars

\* C14: the ResponseComplete filters of a streaming response are invoked
\* exactly once, and only after the stream's EOF signal has fired.
C14_ResponseCompleteOnce == [](completed => stream.eof) /\ <>completed

\* The request has been handed to the cluster.
Dispatched == \E i \in 1..Len(htrace) : htrace[i] = "route"

\* C15: every error DoUpstreamRequest returns is an LLMError: an LLMError
\* of a stage is returned as it is, any other error wrapped as
\* internal_error, and any failure of the upstream call as bad_gateway.
C15_ClusterErrorsAreLLMErrors ==
    Dispatched =>
        LET c == hin.cluster
            failed == FirstFailed([i \in 1..Len(ClusterStages) |-> c[ClusterStages[i]]])
        IN
        /\ herr # NoError => herr.llm
        /\ c["upstream"] # NoError =>
              herr.code = "bad_gateway" /\ herr.cause = c["upstream"].code
        /\ (failed # NoError /\ c["upstream"] = NoError
              /\ ~(c.isStream /\ c["response_complete"] # NoError)) =>
              IF failed.llm THEN herr = failed
              ELSE herr.code = "internal_error" /\ herr.cause = failed.code

\* A stage of the cluster failed with an error that is not an LLMError and
\* the handler got internal_error.
C15_Witness ==
    /\ Dispatched
    /\ hin.cluster["marshaller"] = PlainError("failed")
    /\ herr.llm
    /\ herr.code = "internal_error"

\* C16: when a listener OnRequestPre filter or a type-specific request
\* filter returns failed, the handler returns that error and the request
\* is never dispatched; a request without a bearer token is rejected with
\* missing_api_key (401) before its body is parsed.
C16_FailedFilterAborts ==
    /\ hfailed # NoError =>
          /\ hpc \in {"deferred", "done"}
          /\ hret = [resp |-> "nil", err |-> hfailed]
          /\ ~Dispatched
    /\ (BearerMarshal(hin.header).err # NoError /\ hpc # "pre") =>
          /\ hpc = "done"
          /\ hret.err.code = "missing_api_key"
          /\ hret.err.status = 401
          /\ htrace = <<"pre_filters">>

\* A request without an Authorization header was rejected.
C16_Witness ==
    /\ hin.header = <<>>
    /\ hpc = "done"
    /\ hret.err = NewErrorMissingAPIKey

\* C17: the OnResponsePost filters run for every request the handler
\* processes, whatever the outcome.
C17_ResponsePostAlwaysRuns == hpc = "done" => Len(postSaw) = 1

(***************************************************************************)
(* Load balancer claims.                                                   *)
(***************************************************************************)
\* C18: selection is thread-safe: under any interleaving of Next and Done
\* every Next returns the name of a configured target, the current index
\* stays within [0, N), and no two goroutines are at an unsynchronised write
\* of the index at the same time (no update of it is lost or torn).
C18_ThreadSafe ==
    /\ \A g \in Goroutines :
          returned[g] \in {"none"} \cup {servers[i].name : i \in 1..Len(servers)}
    /\ lrCurrent \in 0..(Len(servers) - 1)
    /\ rrCurrent \in 0..(Len(servers) - 1)
    /\ \A g1, g2 \in Goroutines :
          (gpc[g1] = "lr_store" /\ gpc[g2] = "lr_store") => g1 = g2

\* Target j has a smaller in-flight / weight than target i (a target of
\* weight 0 has no finite ratio), or the same with a smaller raw counter.
Preferred(cs, j, i) ==
    LET wj == servers[j].weight
        wi == servers[i].weight
    IN \/ wj > 0 /\ (wi = 0 \/ cs[j] * wi < cs[i] * wj)
       \/ /\ (wj = 0 /\ wi = 0) \/ (wj > 0 /\ wi > 0 /\ cs[j] * wi = cs[i] * wj)
          /\ cs[j] < cs[i]

\* C19: WeightedLeastRequest.Next returns the target that minimizes
\* in-flight / weight, ties broken on the smaller raw counter (checked when
\* no other call changed a counter meanwhile), and increments the counter
\* of the target it returns.
C19_LeastRequestPicksMinimum ==
    /\ \A g \in Goroutines :
          (gpc[g] = "lr_inc" /\ counters = gl[g].snap) =>
              \A j \in 1..Len(servers) :
                  ~Preferred(counters, j, gl[g].selectedServer + 1)
    /\ lbPolicy = "least_request" => picks = incs

\* C20: Done decrements the counter by one when it is positive and leaves
\* it at zero otherwise.
C20_DoneDecrements ==
    lastDone.called =>
        lastDone.after = IF lastDone.before > 0 THEN lastDone.before - 1 ELSE 0

\* C21: for the weighted round-robin balancer with N >= 2 targets whose
\* weights sum to W > 0, whatever the rolling current index is, exactly w_i
\* of the W values of r in [0, W) select target i.
C21_RoundRobinProportional ==
    (lbPolicy = "round_robin" /\ Len(servers) >= 2 /\ TotalWeight(servers) > 0) =>
        \A i \in 1..Len(servers) :
            Cardinality({r \in 0..(TotalWeight(servers) - 1) :
                            FindIndex(servers, rrCurrent, r, 0, 0) = i - 1})
                = servers[i].weight

\* A draw has advanced the rolling index of a balancer with unequal weights.
C21_Witness ==
    /\ lbPolicy = "round_robin"
    /\ Len(servers) >= 2
    /\ rrCurrent # 0
    /\ \E g \in Goroutines : returned[g] # "none"
    /\ \E i, j \in 1..Len(servers) : 0 < servers[i].weight /\ servers[i].weight < servers[j].weight

\* C22: over the chunks NextChunk has returned for one stream, first is
\* true for at most one chunk, and once a data chunk has been returned for
\* exactly one: the first data chunk.
C22_FirstExactlyOnce ==
    LET firsts == {i \in 1..Len(filtered) : filtered[i].isFirst}
        datas == {i \in 1..Len(filtered) :
                    ~filtered[i].isEmpty /\ ~filtered[i].isDone /\ ~filtered[i].isNil}
    IN /\ Cardinality(firsts) <= 1
       /\ datas # {} => firsts = {CHOOSE i \in datas : \A j \in datas : i <= j}

\* p is a prefix of s.
IsPrefix(p, s) == Len(p) <= Len(s) /\ SubSeq(s, 1, Len(p)) = p

\* C23: a route matches a request if and only if it has at least one
\* target and its match entry's model.exact equals, or its model.prefix is
\* a prefix of, the request's model.
C23_MatchExactOrPrefix ==
    \A r \in RouteSet, model \in Models :
        Match(r, model) <=>
            /\ r.targets > 0
            /\ IF r.matchKind = "exact" THEN r.matchValue = model
               ELSE IsPrefix(r.matchValue, model)

\* C24: with max_retries = 3 and a pre_delay, a request whose cluster call
\* fails on the first two attempts (each is retried) and succeeds on the
\* third makes exactly three cluster calls and returns the successful
\* response.
C24_ThirdAttemptSucceeds ==
    (fbCfg.set /\ fbCfg.maxRetriesSet /\ fbCfg.maxRetries = 3 /\ fbCfg.preDelaySet) =>
        /\ (calls \in 1..2 /\ lastErr # NoErr) =>
              rpc = "loop" /\ retriedCount = calls
        /\ (calls = 3 /\ lastErr = NoErr) =>
              /\ rpc = "returned"
              /\ retErr = NoErr
              /\ retriedCount = 2
              /\ preSleeps = 2

\* The third attempt of such a request has succeeded.
C24_Witness ==
    /\ fbCfg.set /\ fbCfg.maxRetriesSet /\ fbCfg.maxRetries = 3 /\ fbCfg.preDelaySet
    /\ calls = 3
    /\ lastErr = NoErr
    /\ rpc = "returned"

\* RateLimiter.onRequest: the error of the filter's result for the answer
\* of allowRequest.
onRequest(allow) == IF allow THEN NoError ELSE NewErrorRateLimitExceeded

\* C25: with limit 2 and duration 60 s, of the successive requests for one
\* key within one second of the first, the first two are allowed and every
\* further one is rejected, with status 429 and code rate_limit_exceeded.
C25_ThirdRequestRejected ==
    \A k \in Keys :
        (Tracked(k) /\ policy = [limit |-> 2, window |-> defaultDuration]
            /\ now - createdAt[k] <= TicksPerSecond) =>
            /\ Len(allowedAt[k]) <= 2
            /\ denied[k] =>
                  /\ Len(allowedAt[k]) = 2
                  /\ onRequest(~denied[k]).status = 429
                  /\ onRequest(~denied[k]).code = "rate_limit_exceeded"

\* C25, the part that holds: the first two are allowed and every further
\* one is rejected with status 429; the code of the error sent is
\* LLMErrorCodeRateLimitExceeded, "model_rate_limit_exceeded".
C25_ThirdRequestRejectedModelCode ==
    \A k \in Keys :
        (Tracked(k) /\ policy = [limit |-> 2, window |-> defaultDuration]
            /\ now - createdAt[k] <= TicksPerSecond) =>
            /\ Len(allowedAt[k]) <= 2
            /\ denied[k] =>
                  /\ Len(allowedAt[k]) = 2
                  /\ onRequest(~denied[k]).status = 429
                  /\ onRequest(~denied[k]).code = "model_rate_limit_exceeded"

\* Two requests were allowed and a third rejected within one second.
C25_Witness ==
    \E k \in Keys :
        /\ Tracked(k) /\ policy = [limit |-> 2, window |-> defaultDuration]
        /\ now - createdAt[k] <= TicksPerSecond
        /\ Len(allowedAt[k]) = 2
        /\ denied[k]

(***************************************************************************)
(* Claims about request and response bodies.                               *)
(***************************************************************************)
\* C26: when the upstream answers without an error, the response handed
\* back is the upstream's body with its members unchanged, except that the
\* model member is the cluster's name.
C26_ResponseVerbatimButModel ==
    (upResp.kind = "body"
        /\ ~HasUpstreamError(upResp.status,
                             JSONUnmarshal([nil |-> FALSE, bytes |-> upResp.body]).parsed)) =>
        /\ respOut.kind = "body"
        /\ Len(respOut.body) >= Len(upResp.body)
        /\ \A i \in 1..Len(upResp.body) :
              IF upResp.body[i][1] = "model"
              THEN respOut.body[i] = <<"model", ClusterName>>
              ELSE respOut.body[i] = upResp.body[i]
        /\ \E i \in 1..Len(respOut.body) : respOut.body[i] = <<"model", ClusterName>>

\* C27: the request's byte buffer parses to exactly its parsed mapping.
C27_BufferParsedConsistent ==
    ~bodyPanic =>
        /\ ~JSONUnmarshal(bodyBuffer).err
        /\ JSONUnmarshal(bodyBuffer).parsed = bodyParsed

(***************************************************************************)
(* More claims about streamed responses.                                   *)
(***************************************************************************)
\* C28: whichever way the stream ends, its EOF signal fires: once the
\* listener's loop over the stream has ended, nothing reads the stream any
\* more, so the signal has fired by then or never will.
C28_EOFFiresOnEveryEnd == ppc = "ended" => stream.eof

\* The same, split by the way the stream ended: the ends inside NextChunk.
C28_EndsInsideNextChunk == (ppc = "ended" /\ ~writeFailed) => stream.eof

(***************************************************************************)
(* More load balancer claims.                                              *)
(***************************************************************************)
\* C29: under the least-request policy, whenever no call of Next is under
\* way, each target's counter is the number of requests that were routed to
\* it and are not done yet; so every counter is 0 when nothing is in flight.
C29_CountersAreInFlight ==
    (lbPolicy = "least_request" /\ \A g \in Goroutines : gpc[g] = "idle") =>
        \A i \in 1..Len(servers) :
            counters[i] = Cardinality({g \in Goroutines : returned[g] = servers[i].name})

\* The part of it about an idle balancer, with two targets or more.
C29_IdleCountersZero ==
    (lbPolicy = "least_request" /\ Len(servers) >= 2
        /\ \A g \in Goroutines : gpc[g] = "idle" /\ returned[g] = "none") =>
        \A i \in 1..Len(servers) : counters[i] = 0

(***************************************************************************)
(* More BootKit claims.                                                    *)
(***************************************************************************)
\* C30: each registered OnStop hook is invoked at most once per BootKit:
\* no hook is launched both by the shutdown of Start and by a call of Stop.
C30_StopHookAtMostOnce ==
    \A h \in Runnables : ~(stopHook["Start"][h] # "none" /\ stopHook["Stop"][h] # "none")

\* C31: a call of Stop made while Start is waiting for its runnables or its
\* start hooks does not block for ever behind Start: Start stops waiting,
\* the stop hooks run, and Start and Stop both return (or a second signal
\* forces the exit of the process).
C31_StopReturnsWhileStartWaits ==
    (stopPc = "waiting" /\ startPc \in {"runnables", "hooks"})
        ~> ((stopPc = "returned" /\ startPc = "returned") \/ startPc = "exited")

(***************************************************************************)
(* More route registry claims.                                             *)
(***************************************************************************)
\* C32: the order of the effective route list is determined by the history
\* of registrations alone, so in a second run of the same mutations
\* MatchRoute returns the same route for the same model, also when several
\* registered routes match it.
C32_MatchRouteDeterministic == regOp = "MatchRoute" => matched = matchedRerun

(***************************************************************************)
(* More claims about the route fallback loop.                              *)
(***************************************************************************)
\* C33: with fallback.pre_delay set, the route has slept for pre_delay once
\* before every cluster call after the first and not before the first, so
\* after n calls it has slept n - 1 times; without pre_delay it never sleeps.
C33_PreDelayBeforeEveryRetry ==
    /\ (fbCfg.set /\ fbCfg.preDelaySet) => preSleeps = IF calls = 0 THEN 0 ELSE calls - 1
    /\ ~(fbCfg.set /\ fbCfg.preDelaySet) => preSleeps = 0

\* The same for the routes that set max_retries.
C33_PreDelayWhenRetriesCounted ==
    (fbCfg.set /\ fbCfg.preDelaySet /\ fbCfg.maxRetriesSet) =>
        preSleeps = IF calls = 0 THEN 0 ELSE calls - 1

(***************************************************************************)
(* Claims about the request's metadata.                                    *)
(***************************************************************************)
\* C34: the metadata of a request has a single writer: every write to one
\* of its fields is made by the task that handles the request, none by a
\* detached task.
C34_MetadataSingleWriter == \A w \in metaWrites : w[1] = "handler"

\* The detached task writes a field while the handling task is still in
\* the loop over the stream, or writes a field the handling task wrote.
C34_NoConcurrentWrite ==
    [][\A w \in metaWrites' \ metaWrites :
          w[1] = "completer" => (ppc = "ended" /\ <<"handler", w[2]>> \notin metaWrites)]_vars

(***************************************************************************)
(* Claims about errors inside a stream.                                    *)
(***************************************************************************)
\* C35: once the event-stream headers are out (the state the pipe starts
\* in), no JSON error body is written to the response: whatever fails
\* later, the client receives server-sent events only.
C35_NoJSONErrorAfterHeaders ==
    \A i \in 1..Len(client) : client[i][1] # "json_error_body"

\* The same for the failures the loop handles itself: a read failure, a
\* chunk error, a failed write to the client.
C35_HandledFailuresWriteNothing ==
    [][(ppc' = "ended" /\ cur.err \notin {"nil", "EOF"}) => client' = client]_vars

(***************************************************************************)
(* Claims about the filters of a route.                                    *)
(***************************************************************************)
\* C36: the route's response-side filters, on a response that is not a
\* stream and on every chunk of a stream, run in the reverse of the order
\* in which the route's filters are configured and ran on the request.
C36_ResponseFiltersReversed == rfRespRun # <<>> => rfRespRun = Reverse(rfReqRun)

\* C36, the order the code gives: the response side runs the filters in the
\* order of the request side.
C36_ResponseFiltersSameOrder == rfRespRun # <<>> => rfRespRun = rfReqRun

(***************************************************************************)
(* Claims about WeightedRoundRobin.Next.                                   *)
(***************************************************************************)
\* C37: over two or more targets with weights >= 0, the case of all weights
\* 0 included, WeightedRoundRobin.Next never panics; what it returns is the
\* name of a configured target or the empty string.
C37_NextNeverPanics ==
    (lbPolicy = "round_robin" /\ Len(servers) >= 2) =>
        \A g \in Goroutines :
            /\ gpc[g] # "panicked"
            /\ returned[g] \in {"none", ""} \cup {servers[i].name : i \in 1..Len(servers)}

\* C37, the part that holds: with a positive total weight Next does not
\* panic and returns the name of a configured target.
C37_NextWithPositiveTotal ==
    (lbPolicy = "round_robin" /\ Len(servers) >= 2 /\ TotalWeight(servers) > 0) =>
        \A g \in Goroutines :
            /\ gpc[g] # "panicked"
            /\ returned[g] \in {"none"} \cup {servers[i].name : i \in 1..Len(servers)}

(***************************************************************************)
(* Claims about the eviction from a full shard.                            *)
(***************************************************************************)
\* C38: a new bucket inserted into a shard that holds maxBucketsPerShard
\* buckets drops exactly one of them, and the one dropped is a
\* least-recently-accessed one.
C38_InsertEvictsOldest ==
    lastInsert.len >= maxBucketsPerShard =>
        /\ lastInsert.dropped = 1
        /\ lastInsert.droppedGen = lastInsert.oldest

\* C38, the part that holds: when a bucket is dropped it is one bucket, the
\* least-recently-accessed one of those with an entry in
\* shard.lastAccessTime, and the shard was full.
C38_DroppedIsOldest ==
    lastInsert.dropped # 0 =>
        /\ lastInsert.dropped = 1
        /\ lastInsert.droppedGen = lastInsert.oldestTracked
        /\ lastInsert.len >= maxBucketsPerShard

\* C39: a shard never holds more than maxBucketsPerShard buckets.
C39_ShardWithinCap == ShardLen(shardTracked, shardUntracked) <= maxBucketsPerShard

\* C39, the case in which the cap holds: the shard is within the cap while
\* every insert into a full shard found an entry of shard.lastAccessTime
\* to evict.
C39_CapWhileEvicting ==
    [][(lastInsert'.len >= maxBucketsPerShard /\ lastInsert'.dropped = 1
            /\ ShardLen(shardTracked, shardUntracked) <= maxBucketsPerShard)
        => ShardLen(shardTracked', shardUntracked') <= maxBucketsPerShard]_vars

(***************************************************************************)
(* Claims about the usage of an image generations response.                *)
(***************************************************************************)
\* The greater of the request's size and an output's size, by pixels.
GreaterSize(size, output) ==
    IF size.set /\ size.width * size.height > output.width * output.height
      THEN [width |-> size.width, height |-> size.height]
      ELSE [width |-> output.width, height |-> output.height]

\* C40: with size_from = Greatest the usage of every image carries the
\* greater of the size given in the request and the size of the output
\* image.
C40_GreatestOfRequestAndOutput ==
    (sizeFrom = "GREATEST" /\ usageImages # Unresolved /\ ~usageErr) =>
        \A i \in 1..Len(outputs) : usageImages[i] = GreaterSize(requestSize, outputs[i])

\* C40, what the code records with size_from = Greatest: the size of the
\* request, 0 by 0 without one.
C40_GreatestCarriesRequestSize ==
    (sizeFrom = "GREATEST" /\ usageImages # Unresolved /\ ~usageErr) =>
        \A i \in 1..Len(outputs) : usageImages[i] = UsageFromRequest(requestSize)

====
